---- MODULE Spec2Model ----
(***************************************************************************)
(* Model of the Custom Energy Sources Card (version 1.3.0): the card's     *)
(* state, its handlers (setConfig, set hass, _updateData and the           *)
(* completion of its statistics request, the date-selection subscription,  *)
(* disconnectedCallback) and the pure pipeline they call (_normalizeSource,*)
(* _processStatistics, _getValue, _calculateCost, _formatCost, render),    *)
(* and of its visual editor (setConfig, the input handlers and the         *)
(* config-changed event they fire).                                        *)
(***************************************************************************)
EXTENDS Integers, Sequences, FiniteSets, TLC

VARIABLES
  _config,        \* this._config: null or the normalised configuration
  _hass,          \* this._hass: null or the host object last handed over
  _energyData,    \* this._energyData: entity id -> {value}
  _unsubscribe,   \* this._unsubscribe: null or the subscription's cancel handle
  _dateRange,     \* this._dateRange: null or {start, end}
  _initialized,   \* this._initialized
  shadowRoot,     \* what render() last wrote into the shadow root
  inflight,       \* statistics requests awaiting their answer
  subscription,   \* the date-selection subscription: none/pending/active/failed/cancelled
  last,           \* the handler that ran last, with its input and outcome
  editor_config,  \* the editor's this._config
  configChanged   \* null or the detail.config of the last config-changed event

vars == <<_config, _hass, _energyData, _unsubscribe, _dateRange, _initialized,
          shadowRoot, inflight, subscription, last, editor_config, configChanged>>

----------------------------------------------------------------------------
(* JavaScript values.  Every value carries its typeof tag; the payload      *)
(* field differs per type so that values of different types are unequal.    *)

Undefined == [t |-> "undefined"]
Null == [t |-> "null"]
Bool(b) == [t |-> "boolean", b |-> b]
Num(n) == [t |-> "number", n |-> n]
NaN == [t |-> "number", nan |-> TRUE]
Str(s) == [t |-> "string", s |-> s]
Arr(a) == [t |-> "array", a |-> a]

\* ToBoolean
Truthy(v) ==
  CASE v.t = "undefined" -> FALSE
    [] v.t = "null" -> FALSE
    [] v.t = "boolean" -> v.b
    [] v.t = "number" -> (v # NaN /\ v.n # 0)
    [] v.t = "string" -> v.s # ""
    [] OTHER -> TRUE

\* a || b
JsOr(a, b) == IF Truthy(a) THEN a ELSE b

\* a ?? b
Nullish(a, b) == IF a.t \in {"undefined", "null"} THEN b ELSE a

\* typeof v === 'number'
IsNumber(v) == v.t = "number"

\* table[key] for one of the DEFAULT_* tables
Lookup(table, key) ==
  IF key.t = "string" /\ key.s \in DOMAIN table THEN Str(table[key.s]) ELSE Undefined

----------------------------------------------------------------------------
(* Default tables.  The emojis are written by name.                         *)

DEFAULT_EMOJIS ==
  [solar |-> "sun", battery_in |-> "battery", battery_out |-> "low-battery",
   grid_import |-> "factory", grid_export |-> "money-bag", grid_net |-> "zap",
   gas |-> "fire", water |-> "droplet", default |-> "bar-chart"]

DEFAULT_LABELS ==
  [solar |-> "Solar Production", battery_in |-> "Battery Charged",
   battery_out |-> "Battery Used", grid_import |-> "Grid Import",
   grid_export |-> "Grid Export", grid_net |-> "Grid Net",
   gas |-> "Gas", water |-> "Water", default |-> "Energy"]

DEFAULT_UNITS ==
  [solar |-> "kWh", battery_in |-> "kWh", battery_out |-> "kWh",
   grid_import |-> "kWh", grid_export |-> "kWh", grid_net |-> "kWh",
   gas |-> "m3", water |-> "gal", default |-> "kWh"]

----------------------------------------------------------------------------
(* Configuration Normalizer                                                 *)

\* mutant: show_cost is switched off when it was given
_normalizeSource_DropsGivenShowCost(source) ==
  [type |-> JsOr(source.type, Str("default")),
   entity |-> JsOr(source.entity, Str("")),
   label |-> JsOr(JsOr(source.label, Lookup(DEFAULT_LABELS, JsOr(source.type, Str("default")))),
                  Str(DEFAULT_LABELS.default)),
   emoji |-> JsOr(JsOr(source.emoji, Lookup(DEFAULT_EMOJIS, JsOr(source.type, Str("default")))),
                  Str(DEFAULT_EMOJIS.default)),
   unit |-> JsOr(JsOr(source.unit, Lookup(DEFAULT_UNITS, JsOr(source.type, Str("default")))),
                 Str(DEFAULT_UNITS.default)),
   rate_entity |-> JsOr(source.rate_entity, Str("")),
   rate_static |-> Nullish(source.rate_static, Null),
   cost_formula |-> JsOr(source.cost_formula, Str("")),
   invert_cost |-> JsOr(source.invert_cost, Bool(FALSE)),
   show_cost |-> Bool(source.show_cost = Undefined),
   hide_if_zero |-> JsOr(source.hide_if_zero, Bool(FALSE)),
   calculate_from |-> JsOr(source.calculate_from, Null)]

\* mutant: the defaults of the 'default' kind whatever the type
_normalizeSource_IgnoresKind(source) ==
  LET type == JsOr(source.type, Str("default")) IN
  [type |-> type,
   entity |-> JsOr(source.entity, Str("")),
   label |-> JsOr(source.label, Str(DEFAULT_LABELS.default)),
   emoji |-> JsOr(source.emoji, Str(DEFAULT_EMOJIS.default)),
   unit |-> JsOr(source.unit, Str(DEFAULT_UNITS.default)),
   rate_entity |-> JsOr(source.rate_entity, Str("")),
   rate_static |-> Nullish(source.rate_static, Null),
   cost_formula |-> JsOr(source.cost_formula, Str("")),
   invert_cost |-> JsOr(source.invert_cost, Bool(FALSE)),
   show_cost |-> Bool(source.show_cost # Bool(FALSE)),
   hide_if_zero |-> JsOr(source.hide_if_zero, Bool(FALSE)),
   calculate_from |-> JsOr(source.calculate_from, Null)]

_normalizeSource(source) ==
  LET type == JsOr(source.type, Str("default")) IN
  [type |-> type,
   entity |-> JsOr(source.entity, Str("")),
   label |-> JsOr(JsOr(source.label, Lookup(DEFAULT_LABELS, type)), Str(DEFAULT_LABELS.default)),
   emoji |-> JsOr(JsOr(source.emoji, Lookup(DEFAULT_EMOJIS, type)), Str(DEFAULT_EMOJIS.default)),
   unit |-> JsOr(JsOr(source.unit, Lookup(DEFAULT_UNITS, type)), Str(DEFAULT_UNITS.default)),
   rate_entity |-> JsOr(source.rate_entity, Str("")),
   rate_static |-> Nullish(source.rate_static, Null),
   cost_formula |-> JsOr(source.cost_formula, Str("")),
   invert_cost |-> JsOr(source.invert_cost, Bool(FALSE)),
   show_cost |-> Bool(source.show_cost # Bool(FALSE)),
   hide_if_zero |-> JsOr(source.hide_if_zero, Bool(FALSE)),
   calculate_from |-> JsOr(source.calculate_from, Null)]

\* mutant: the guard without its length test
SourcesRejected_AcceptsEmpty(config) ==
  \/ ~Truthy(config.sources)
  \/ config.sources.t # "array"

\* the guard of setConfig: the source list is absent, falsy, no array or empty
SourcesRejected(config) ==
  \/ ~Truthy(config.sources)
  \/ config.sources.t # "array"
  \/ Len(config.sources.a) = 0

\* the object setConfig assigns to this._config
NormalizedConfig(config) ==
  [title |-> JsOr(config.title, Str("Energy Sources")),
   show_header |-> Bool(config.show_header # Bool(FALSE)),
   show_total |-> Bool(config.show_total # Bool(FALSE)),
   currency |-> JsOr(config.currency, Str("$")),
   decimal_places |-> Nullish(config.decimal_places, Num(2)),
   cost_decimal_places |-> Nullish(config.cost_decimal_places, Num(2)),
   period |-> JsOr(config.period, Str("today")),
   period_entity |-> JsOr(config.period_entity, Null),
   sources |-> [i \in 1..Len(config.sources.a) |-> _normalizeSource(config.sources.a[i])],
   net_metering |-> JsOr(config.net_metering, Null)]

----------------------------------------------------------------------------
(* Statistics Aggregator                                                    *)

\* stat.change || 0
ChangeOrZero(stat) == IF Truthy(stat.change) /\ IsNumber(stat.change) THEN stat.change.n ELSE 0

\* stats.reduce((acc, stat) => acc + (stat.change || 0), 0)
RECURSIVE SumChanges(_)
SumChanges(stats) ==
  IF Len(stats) = 0 THEN 0
  ELSE SumChanges(SubSeq(stats, 1, Len(stats) - 1)) + ChangeOrZero(stats[Len(stats)])

\* the else-if of _processStatistics: is the change field used?
UsesChange(firstStat) == IsNumber(firstStat.change)

\* mutant: the two branches in the other order, change before sum
TotalValue_PrefersChange(stats) ==
  IF ~Truthy(stats) \/ stats.t # "array" \/ Len(stats.a) = 0 THEN 0
  ELSE LET firstStat == stats.a[1]
           lastStat == stats.a[Len(stats.a)]
       IN IF UsesChange(firstStat)
            THEN SumChanges(stats.a)
          ELSE IF IsNumber(firstStat.sum) /\ IsNumber(lastStat.sum)
            THEN lastStat.sum.n - firstStat.sum.n
          ELSE 0

\* the body of the loop of _processStatistics for one entity
TotalValue(stats) ==
  IF ~Truthy(stats) \/ stats.t # "array" \/ Len(stats.a) = 0 THEN 0
  ELSE LET firstStat == stats.a[1]
           lastStat == stats.a[Len(stats.a)]
       IN IF IsNumber(firstStat.sum) /\ IsNumber(lastStat.sum)
            THEN lastStat.sum.n - firstStat.sum.n
          ELSE IF UsesChange(firstStat)
            THEN SumChanges(stats.a)
          ELSE 0

\* mutant: the guard without its length test; stats[0].sum then throws on an
\* empty array and the catch of _updateData resets the whole map
_processStatistics_NoEmptyGuard(statistics) ==
  IF statistics = Null THEN << >>
  ELSE IF \E e \in DOMAIN statistics :
            statistics[e].t = "array" /\ Len(statistics[e].a) = 0
    THEN << >>
  ELSE [e \in DOMAIN statistics |-> [value |-> TotalValue(statistics[e])]]

\* statistics: null, or a mapping entity id -> stats
_processStatistics(statistics) ==
  IF statistics = Null THEN << >>
  ELSE [e \in DOMAIN statistics |-> [value |-> TotalValue(statistics[e])]]

----------------------------------------------------------------------------
(* Value Resolver                                                           *)

\* data[key]?.value || 0
ValueOf(data, key) ==
  IF key.t = "string" /\ key.s \in DOMAIN data THEN data[key.s].value ELSE 0

\* source.calculate_from.import / .export
Prop(obj, name) == IF obj.t = "object" /\ name \in DOMAIN obj THEN obj[name] ELSE Undefined

_getValue_EntityFirst(data, source) ==
  IF Truthy(source.entity) THEN ValueOf(data, source.entity)
  ELSE ValueOf(data, Prop(source.calculate_from, "import"))
       - ValueOf(data, Prop(source.calculate_from, "export"))

_getValue(data, source) ==
  IF Truthy(source.calculate_from)
    THEN ValueOf(data, Prop(source.calculate_from, "import"))
         - ValueOf(data, Prop(source.calculate_from, "export"))
  ELSE ValueOf(data, source.entity)

----------------------------------------------------------------------------
(* Strings that are parsed or produced character by character (entity       *)
(* states, formatted numbers) are sequences of one-character strings.       *)

DigitChars == <<"0", "1", "2", "3", "4", "5", "6", "7", "8", "9">>
IsDigit(c) == \E i \in 1..10 : DigitChars[i] = c
DigitValue(c) == (CHOOSE i \in 1..10 : DigitChars[i] = c) - 1

RECURSIVE TrimLeft(_)
TrimLeft(s) == IF Len(s) > 0 /\ s[1] = " " THEN TrimLeft(Tail(s)) ELSE s

RECURSIVE LeadingDigits(_)
LeadingDigits(s) ==
  IF Len(s) > 0 /\ IsDigit(s[1]) THEN <<s[1]>> \o LeadingDigits(Tail(s)) ELSE << >>

RECURSIVE DigitsValue(_)
DigitsValue(ds) ==
  IF Len(ds) = 0 THEN 0
  ELSE 10 * DigitsValue(SubSeq(ds, 1, Len(ds) - 1)) + DigitValue(ds[Len(ds)])

\* NaN without a digit, else the value of the digits
ParseDigits(ds) == IF Len(ds) = 0 THEN NaN ELSE Num(DigitsValue(ds))

Negated(v) == IF v = NaN THEN NaN ELSE Num(0 - v.n)

\* the sign and the digits of a string without leading blanks
ParseSigned(t) ==
  IF Len(t) > 0 /\ t[1] = "-" THEN Negated(ParseDigits(LeadingDigits(Tail(t))))
  ELSE IF Len(t) > 0 /\ t[1] = "+" THEN ParseDigits(LeadingDigits(Tail(t)))
  ELSE ParseDigits(LeadingDigits(t))

\* parseFloat on integer literals: leading blanks, an optional sign, the
\* longest run of digits; whatever follows is ignored; NaN without a digit
ParseFloat(s) == ParseSigned(TrimLeft(s))

RECURSIVE ToDigits(_)
ToDigits(n) ==
  IF n < 10 THEN <<DigitChars[n + 1]>> ELSE ToDigits(n \div 10) \o <<DigitChars[(n % 10) + 1]>>

Abs(n) == IF n < 0 THEN 0 - n ELSE n

\* n.toLocaleString(undefined, {minimumFractionDigits: d, maximumFractionDigits: d})
\* for an integer n below the first grouping separator
ToLocaleString(n, d) ==
  (IF n < 0 THEN <<"-">> ELSE << >>) \o ToDigits(Abs(n))
    \o (IF d > 0 THEN <<".">> \o [i \in 1..d |-> "0"] ELSE << >>)

----------------------------------------------------------------------------
(* Host states                                                              *)

\* this._hass?.states?.[key] is defined
HasState(hass, key) ==
  hass # Null /\ key.t = "string" /\ key.s \in DOMAIN hass.states

\* this._hass.states[key].state
StateOf(hass, key) == hass.states[key.s]

----------------------------------------------------------------------------
(* Cost Evaluator                                                           *)

\* if (!isNaN(parsedRate)) rate = parsedRate
NumberOrNull(parsedRate) == IF parsedRate # NaN THEN parsedRate ELSE Null

\* `rate` after the rate entity was tried
EntityRate(hass, source) ==
  IF Truthy(source.rate_entity) /\ HasState(hass, source.rate_entity)
    THEN NumberOrNull(ParseFloat(StateOf(hass, source.rate_entity)))
  ELSE Null

RateOrFallback_StaticFirst(rate, source) ==
  IF IsNumber(source.rate_static) THEN source.rate_static.n
  ELSE IF rate # Null THEN rate.n
  ELSE 0

\* the fall back to the static rate, then to 0
RateOrFallback(rate, source) ==
  IF rate # Null THEN rate.n
  ELSE IF IsNumber(source.rate_static) THEN source.rate_static.n
  ELSE 0

\* the value of `rate` when _calculateCost reaches the cost formula
Rate(hass, source) == RateOrFallback(EntityRate(hass, source), source)

\* new Function('return ' + formula)() after the textual substitution of
\* value and rate, for the formulas of the model: ok is FALSE when the
\* constructor or the call throws
EvalFormula(formula, value, rate) ==
  CASE formula = "value * rate + 5" -> [ok |-> TRUE, result |-> value * rate + 5]
    [] formula = "value + rate" -> [ok |-> TRUE, result |-> value + rate]
    [] formula = "-value" ->  \* "--3" does not parse
         IF value < 0 THEN [ok |-> FALSE] ELSE [ok |-> TRUE, result |-> 0 - value]
    [] formula = "value *" -> [ok |-> FALSE]  \* SyntaxError
    [] OTHER -> [ok |-> FALSE]                \* ReferenceError: "tariff * value"

Inverted_Never(source, x) == x

\* -x when invert_cost
Inverted(source, x) == IF Truthy(source.invert_cost) THEN 0 - x ELSE x

FormulaCost_ZeroOnFailure(source, r) ==
  IF r.ok THEN Num(Inverted(source, r.result)) ELSE Num(0)

\* the return of the try block, or of its catch
FormulaCost(source, r) == IF r.ok THEN Num(Inverted(source, r.result)) ELSE Null

\* _calculateCost once the rate is resolved
CostAtRate(source, value, rate) ==
  IF Truthy(source.cost_formula)
    THEN IF source.cost_formula.t # "string" THEN Null  \* .replace is no function
         ELSE FormulaCost(source, EvalFormula(source.cost_formula.s, value, rate))
  ELSE Num(Inverted(source, value * rate))

_calculateCost_IgnoresShowCost(hass, source, value) ==
  CostAtRate(source, value, Rate(hass, source))

_calculateCost(hass, source, value) ==
  IF ~Truthy(source.show_cost) THEN Null
  ELSE CostAtRate(source, value, Rate(hass, source))

----------------------------------------------------------------------------
(* Presentation                                                             *)

_formatNumber(value, decimals) == ToLocaleString(value, decimals.n)

Prefixed_TrailingSign(currency, cost, formatted) ==
  IF cost.n < 0 THEN <<currency.s>> \o formatted \o <<"-">> ELSE <<currency.s>> \o formatted

\* the currency symbol before the digits, the minus sign before both
Prefixed(currency, cost, formatted) ==
  IF cost.n < 0 THEN <<"-", currency.s>> \o formatted ELSE <<currency.s>> \o formatted

_formatCost(cfg, cost, decimals) ==
  IF cost = Null THEN << >>
  ELSE IF ~IsNumber(cost) \/ cost = NaN THEN << >>
  ELSE Prefixed(JsOr(cfg.currency, Str("$")), cost, ToLocaleString(Abs(cost.n), decimals.n))

\* `Invalid: ${entityState.state}` when the state does not parse
InvalidWarning(state) ==
  IF ParseFloat(state) = NaN THEN [t |-> "string", s |-> "Invalid", state |-> state] ELSE Null

RateWarning_OnlyMissing(hass, source) ==
  IF Truthy(source.show_cost) /\ Truthy(source.rate_entity)
       /\ ~HasState(hass, source.rate_entity)
    THEN Str("Entity not found")
  ELSE Null

\* the rateWarning of a row
RateWarning(hass, source) ==
  IF Truthy(source.show_cost) /\ Truthy(source.rate_entity)
    THEN IF ~HasState(hass, source.rate_entity) THEN Str("Entity not found")
         ELSE InvalidWarning(StateOf(hass, source.rate_entity))
  ELSE Null

\* cost !== null && !isNaN(cost)
CostCounts(cost) == cost # Null /\ cost # NaN

\* what the template puts under the value of a row
CostSpan(rateWarning, costFormatted) ==
  IF Truthy(rateWarning) THEN "warning"
  ELSE IF Len(costFormatted) > 0 THEN "cost"
  ELSE "none"

\* the object the map callback returns
RowObject(cfg, source, value, cost, rateWarning, costFormatted) ==
  [t |-> "object",
   emoji |-> JsOr(source.emoji, Str("bar-chart")),
   label |-> JsOr(source.label, Str("Energy")),
   value |-> _formatNumber(value, cfg.decimal_places),
   unit |-> JsOr(source.unit, Str("kWh")),
   cost |-> cost,
   costFormatted |-> costFormatted,
   rateWarning |-> rateWarning,
   isNegative |-> value < 0,
   isCostCredit |-> (cost # Null /\ cost # NaN /\ cost.n < 0),
   costSpan |-> CostSpan(rateWarning, costFormatted)]

\* the map callback once the cost is known
RowWithCost(cfg, hass, source, value, cost) ==
  RowObject(cfg, source, value, cost, RateWarning(hass, source),
            _formatCost(cfg, cost, cfg.cost_decimal_places))

RowForValue_HidesUpToZero(cfg, hass, source, value) ==
  IF Truthy(source.hide_if_zero) /\ value <= 0 THEN Null
  ELSE RowWithCost(cfg, hass, source, value, _calculateCost(hass, source, value))

\* the map callback once the value is known: null for a hidden source
RowForValue(cfg, hass, source, value) ==
  IF Truthy(source.hide_if_zero) /\ value = 0 THEN Null
  ELSE RowWithCost(cfg, hass, source, value, _calculateCost(hass, source, value))

\* the callback of sources.map in render
RowOf(cfg, hass, data, source) == RowForValue(cfg, hass, source, _getValue(data, source))

\* sources.map(...): one entry per source
MappedRows(cfg, hass, data) ==
  [i \in 1..Len(cfg.sources) |-> RowOf(cfg, hass, data, cfg.sources[i])]

\* what one entry of the map adds to totalCost
CostAdded(r) == IF r # Null /\ CostCounts(r.cost) THEN r.cost.n ELSE 0

RECURSIVE SumCosts(_)
SumCosts(mapped) ==
  IF Len(mapped) = 0 THEN 0
  ELSE SumCosts(SubSeq(mapped, 1, Len(mapped) - 1)) + CostAdded(mapped[Len(mapped)])

IsRow(r) == r # Null

\* parseFloat(state) || 0
NumberOrZero(parsed) == IF Truthy(parsed) THEN parsed.n ELSE 0

\* the rate of the net-metering row
NetRate(hass, nm) ==
  IF Truthy(nm.rate_entity) /\ HasState(hass, nm.rate_entity)
    THEN NumberOrZero(ParseFloat(StateOf(hass, nm.rate_entity)))
  ELSE IF IsNumber(nm.rate_static) THEN nm.rate_static.n
  ELSE 0

\* the net-metering row object
NetRowObject(cfg, nm, netValue, cost) ==
  [t |-> "object",
   emoji |-> JsOr(nm.emoji, Str("zap")),
   label |-> JsOr(nm.label, Str("Grid Net (Metered)")),
   value |-> _formatNumber(netValue, cfg.decimal_places),
   unit |-> JsOr(nm.unit, Str("kWh")),
   cost |-> Num(cost),
   costFormatted |-> _formatCost(cfg, Num(cost), cfg.cost_decimal_places),
   isNegative |-> netValue < 0,
   isCredit |-> cost < 0]

NetRowForValue(cfg, hass, nm, netValue) ==
  NetRowObject(cfg, nm, netValue, netValue * NetRate(hass, nm))

NetMeteringRow_HiddenAtZero(cfg, hass, data) ==
  IF ~Truthy(cfg.net_metering) THEN Null
  ELSE IF ValueOf(data, cfg.net_metering.import_entity)
          - ValueOf(data, cfg.net_metering.export_entity) = 0 THEN Null
  ELSE NetRowForValue(cfg, hass, cfg.net_metering,
                      ValueOf(data, cfg.net_metering.import_entity)
                      - ValueOf(data, cfg.net_metering.export_entity))

NetMeteringRow(cfg, hass, data) ==
  IF ~Truthy(cfg.net_metering) THEN Null
  ELSE NetRowForValue(cfg, hass, cfg.net_metering,
                      ValueOf(data, cfg.net_metering.import_entity)
                      - ValueOf(data, cfg.net_metering.export_entity))

AnyCost_AnyRow(rows) == Len(rows) > 0

\* some row has a cost that counts
AnyCost(rows) == \E i \in 1..Len(rows) : CostCounts(rows[i].cost)

NetCost(netMeteringRow) == IF netMeteringRow # Null THEN netMeteringRow.cost.n ELSE 0

\* the template, filled
Card(cfg, rows, netMeteringRow, totalCost, hasAnyCost) ==
  [kind |-> "card",
   header |-> IF Truthy(cfg.show_header) THEN JsOr(cfg.title, Str("Energy Sources")) ELSE Null,
   noData |-> (Len(rows) = 0 /\ netMeteringRow = Null),
   rows |-> rows,
   netMeteringRow |-> netMeteringRow,
   totalCost |-> totalCost,
   hasAnyCost |-> hasAnyCost,
   totalRow |-> IF ~(Len(rows) = 0 /\ netMeteringRow = Null)
                   /\ Truthy(cfg.show_total) /\ hasAnyCost
                  THEN _formatCost(cfg, Num(totalCost), cfg.cost_decimal_places)
                ELSE << >>]

\* render() once the rows are mapped
RenderRows(cfg, mapped, netMeteringRow) ==
  Card(cfg, SelectSeq(mapped, IsRow), netMeteringRow,
       SumCosts(mapped) + NetCost(netMeteringRow),
       AnyCost(SelectSeq(mapped, IsRow)) \/ netMeteringRow # Null)

\* render(): the content written to the shadow root, with the totals it
\* accumulated
Render(cfg, hass, data) ==
  IF cfg = Null THEN [kind |-> "loading"]
  ELSE RenderRows(cfg, MappedRows(cfg, hass, data), NetMeteringRow(cfg, hass, data))

\* the children of .energy-content, in the order of the template
EnergyRows(rows) == [i \in 1..Len(rows) |-> [class |-> "energy-row", row |-> rows[i]]]

NetRowContent(netMeteringRow) ==
  IF netMeteringRow # Null THEN <<[class |-> "net-metering-row", row |-> netMeteringRow]>>
  ELSE << >>

TotalContent(totalRow) ==
  IF totalRow # << >> THEN <<[class |-> "total", value |-> totalRow]>> ELSE << >>

Content(card) ==
  IF card.kind # "card" THEN << >>
  ELSE IF card.noData THEN <<[class |-> "no-data"]>>
  ELSE EnergyRows(card.rows) \o NetRowContent(card.netMeteringRow) \o TotalContent(card.totalRow)

----------------------------------------------------------------------------
(* Time windows.  Instants are named, not computed: "now" is the clock at   *)
(* the time of the call and "<period>-start" the start of the period.       *)

_getDateRangeForPeriod(period) ==
  CASE period = "yesterday" -> [start |-> Str("yesterday-start"), end |-> Str("today-start")]
    [] period = "week" -> [start |-> Str("week-start"), end |-> Str("now")]
    [] period = "month" -> [start |-> Str("month-start"), end |-> Str("now")]
    [] period = "year" -> [start |-> Str("year-start"), end |-> Str("now")]
    [] OTHER -> [start |-> Str("today-start"), end |-> Str("now")]

\* toLowerCase on the letters the model's states use
LowerChar(c) ==
  CASE c = "W" -> "w" [] c = "E" -> "e" [] c = "K" -> "k" [] OTHER -> c
ToLowerCase(s) == [i \in 1..Len(s) |-> LowerChar(s[i])]

\* stateMap of _getConfiguredPeriod
StateMap ==
  { << <<"t","o","d","a","y">>, "today" >>,
    << <<"y","e","s","t","e","r","d","a","y">>, "yesterday" >>,
    << <<"w","e","e","k">>, "week" >>,
    << <<"t","h","i","s","_","w","e","e","k">>, "week" >>,
    << <<"m","o","n","t","h">>, "month" >>,
    << <<"t","h","i","s","_","m","o","n","t","h">>, "month" >>,
    << <<"y","e","a","r">>, "year" >>,
    << <<"t","h","i","s","_","y","e","a","r">>, "year" >> }

\* stateMap[entityState.toLowerCase()]: the periods the state maps to
MappedPeriods(state) == {m[2] : m \in {x \in StateMap : x[1] = ToLowerCase(state)}}

\* the mapped period, else the configured one, else today
PeriodOr(periods, cfg) ==
  IF periods # {} THEN CHOOSE q \in periods : TRUE
  ELSE IF cfg # Null /\ Truthy(cfg.period) THEN cfg.period.s
  ELSE "today"

_getConfiguredPeriod(cfg, hass) ==
  IF cfg # Null /\ Truthy(cfg.period_entity) /\ HasState(hass, cfg.period_entity)
    THEN PeriodOr(MappedPeriods(StateOf(hass, cfg.period_entity)), cfg)
  ELSE PeriodOr({}, cfg)

----------------------------------------------------------------------------
(* _updateData up to its await                                              *)

\* the identifiers one source pushes
SourceIds(source) ==
  SelectSeq(<<source.entity,
              Prop(source.calculate_from, "import"),
              Prop(source.calculate_from, "export")>>, Truthy)

RECURSIVE AllSourceIds(_)
AllSourceIds(sources) ==
  IF Len(sources) = 0 THEN << >>
  ELSE AllSourceIds(SubSeq(sources, 1, Len(sources) - 1)) \o SourceIds(sources[Len(sources)])

NetMeteringIds(cfg) ==
  IF Truthy(cfg.net_metering)
    THEN SelectSeq(<<cfg.net_metering.import_entity, cfg.net_metering.export_entity>>, Truthy)
  ELSE << >>

\* [...new Set(ids)]: the first occurrence of each identifier, in order
AppendNew(front, x) ==
  IF \E i \in 1..Len(front) : front[i] = x THEN front ELSE Append(front, x)

Unique_KeepsDuplicates(ids) == ids

RECURSIVE Unique(_)
Unique(ids) ==
  IF Len(ids) = 0 THEN << >>
  ELSE AppendNew(Unique(SubSeq(ids, 1, Len(ids) - 1)), ids[Len(ids)])

UniqueEntityIds(cfg) == Unique(AllSourceIds(cfg.sources) \o NetMeteringIds(cfg))

\* the callWS message for a date range
RequestFor(cfg, hass, dateRange) ==
  [statistic_ids |-> UniqueEntityIds(cfg),
   start_time |-> dateRange.start,
   end_time |-> IF Truthy(dateRange.end) THEN dateRange.end ELSE Str("now"),
   callWS |-> hass.callWS]

\* the request _fetchStatistics sends (or, without callWS, does not send)
Request(cfg, hass, range) ==
  IF range # Null THEN RequestFor(cfg, hass, range)
  ELSE RequestFor(cfg, hass, _getDateRangeForPeriod(_getConfiguredPeriod(cfg, hass)))

\* mutant: no second request while one is in flight
_updateData_Coalesces(cfg, hass, range) ==
  IF hass = Null \/ cfg = Null
    THEN UNCHANGED <<_energyData, shadowRoot, inflight>>
  ELSE IF Len(UniqueEntityIds(cfg)) = 0
    THEN /\ _energyData' = << >>
         /\ shadowRoot' = Render(cfg, hass, << >>)
         /\ UNCHANGED inflight
  ELSE /\ inflight' = IF Len(inflight) = 0 THEN <<Request(cfg, hass, range)>> ELSE inflight
       /\ UNCHANGED <<_energyData, shadowRoot>>

\* _updateData, called with the card's fields as the caller left them:
\* returns early, resets and renders, or leaves a request in flight
_updateData(cfg, hass, range) ==
  IF hass = Null \/ cfg = Null
    THEN UNCHANGED <<_energyData, shadowRoot, inflight>>
  ELSE IF Len(UniqueEntityIds(cfg)) = 0
    THEN /\ _energyData' = << >>
         /\ shadowRoot' = Render(cfg, hass, << >>)
         /\ UNCHANGED inflight
  ELSE /\ inflight' = Append(inflight, Request(cfg, hass, range))
       /\ UNCHANGED <<_energyData, shadowRoot>>

----------------------------------------------------------------------------
(* Handlers                                                                 *)

\* new CustomEnergySourcesCard()
Init ==
  /\ _config = Null
  /\ _hass = Null
  /\ _energyData = << >>
  /\ _unsubscribe = Null
  /\ _dateRange = Null
  /\ _initialized = FALSE
  /\ shadowRoot = [kind |-> "blank"]
  /\ inflight = << >>
  /\ subscription = "none"
  /\ last = [op |-> "constructor"]
  /\ editor_config = << >>
  /\ configChanged = Null

\* mutant: a rejected configuration unsets the stored one
SetConfig_ForgetsOnReject(config) ==
  /\ IF SourcesRejected(config)
       THEN /\ last' = [op |-> "setConfig", config |-> config, threw |-> TRUE]
            /\ _config' = Null
            /\ shadowRoot' = Render(Null, _hass, _energyData)
     ELSE /\ _config' = NormalizedConfig(config)
          /\ shadowRoot' = Render(_config', _hass, _energyData)
          /\ last' = [op |-> "setConfig", config |-> config, threw |-> FALSE]
  /\ UNCHANGED <<editor_config, configChanged,
                 _hass, _energyData, _unsubscribe, _dateRange, _initialized,
                 inflight, subscription>>

\* setConfig(config)
SetConfig(config) ==
  /\ IF SourcesRejected(config)
       THEN /\ last' = [op |-> "setConfig", config |-> config, threw |-> TRUE]
            /\ UNCHANGED <<_config, shadowRoot>>
     ELSE /\ _config' = NormalizedConfig(config)
          /\ shadowRoot' = Render(_config', _hass, _energyData)
          /\ last' = [op |-> "setConfig", config |-> config, threw |-> FALSE]
  /\ UNCHANGED <<editor_config, configChanged,
                 _hass, _energyData, _unsubscribe, _dateRange, _initialized,
                 inflight, subscription>>

\* mutant: a new subscription request once the earlier one failed or was cancelled
SetHass_SubscribesAgain(hass) ==
  /\ _hass' = hass
  /\ IF (~_initialized \/ subscription \in {"failed", "cancelled"})
          /\ hass # Null /\ hass.connection
       THEN _initialized' = TRUE /\ subscription' = "pending"
     ELSE UNCHANGED <<_initialized, subscription>>
  /\ _updateData(_config, hass, _dateRange)
  /\ last' = [op |-> "hass"]
  /\ UNCHANGED <<editor_config, configChanged,
                 _config, _unsubscribe, _dateRange>>

\* set hass(hass)
SetHass(hass) ==
  /\ _hass' = hass
  /\ IF ~_initialized /\ hass # Null /\ hass.connection
       THEN _initialized' = TRUE /\ subscription' = "pending"
     ELSE UNCHANGED <<_initialized, subscription>>
  /\ _updateData(_config, hass, _dateRange)
  /\ last' = [op |-> "hass"]
  /\ UNCHANGED <<editor_config, configChanged,
                 _config, _unsubscribe, _dateRange>>

\* the request i in flight is answered: the rest of _updateData
CompleteFetch(i, statistics, op) ==
  /\ i \in 1..Len(inflight)
  /\ inflight' = [j \in 1..(Len(inflight) - 1) |-> IF j < i THEN inflight[j] ELSE inflight[j + 1]]
  /\ _energyData' = _processStatistics(statistics)
  /\ shadowRoot' = Render(_config, _hass, _energyData')
  /\ last' = [op |-> op, request |-> inflight[i], statistics |-> statistics,
              before |-> _energyData]
  /\ UNCHANGED <<editor_config, configChanged,
                 _config, _hass, _unsubscribe, _dateRange, _initialized, subscription>>

\* callWS resolves with the statistics
StatisticsArrive(i, statistics) ==
  /\ i \in 1..Len(inflight)
  /\ inflight[i].callWS
  /\ CompleteFetch(i, statistics, "statistics")

StatisticsFail_KeepsData(i) ==
  /\ i \in 1..Len(inflight)
  /\ inflight' = [j \in 1..(Len(inflight) - 1) |-> IF j < i THEN inflight[j] ELSE inflight[j + 1]]
  /\ shadowRoot' = Render(_config, _hass, _energyData)
  /\ last' = [op |-> "statisticsFailed", request |-> inflight[i], statistics |-> << >>,
              before |-> _energyData]
  /\ UNCHANGED <<editor_config, configChanged,
                 _config, _hass, _energyData, _unsubscribe, _dateRange, _initialized,
                 subscription>>

\* callWS rejects, or the host has no callWS: _fetchStatistics returns {}
StatisticsFail(i) ==
  /\ i \in 1..Len(inflight)
  /\ CompleteFetch(i, << >>, "statisticsFailed")

\* subscribeMessage resolves with the cancel handle
SubscribeResolve ==
  /\ subscription = "pending"
  /\ subscription' = "active"
  /\ _unsubscribe' = [t |-> "function"]
  /\ last' = [op |-> "subscribed"]
  /\ UNCHANGED <<editor_config, configChanged,
                 _config, _hass, _energyData, _dateRange, _initialized, shadowRoot, inflight>>

\* subscribeMessage rejects: the catch of _subscribeToEnergyDate
SubscribeReject ==
  /\ subscription = "pending"
  /\ subscription' = "failed"
  /\ _dateRange' = _getDateRangeForPeriod(_getConfiguredPeriod(_config, _hass))
  /\ _updateData(_config, _hass, _dateRange')
  /\ last' = [op |-> "subscribeFailed"]
  /\ UNCHANGED <<editor_config, configChanged,
                 _config, _hass, _unsubscribe, _initialized>>

\* mutant: the end of the stored window survives a new message
DateSelection_KeepsEnd(msg) ==
  /\ subscription = "active"
  /\ _dateRange' = [start |-> JsOr(msg.start_date, msg.start),
                    end |-> IF _dateRange # Null THEN _dateRange.end
                            ELSE JsOr(msg.end_date, msg.end)]
  /\ _updateData(_config, _hass, _dateRange')
  /\ last' = [op |-> "dateSelection", msg |-> msg]
  /\ UNCHANGED <<editor_config, configChanged,
                 _config, _hass, _unsubscribe, _initialized, subscription>>

\* a date-selection message arrives on the subscription
DateSelection(msg) ==
  /\ subscription = "active"
  /\ _dateRange' = [start |-> JsOr(msg.start_date, msg.start),
                    end |-> JsOr(msg.end_date, msg.end)]
  /\ _updateData(_config, _hass, _dateRange')
  /\ last' = [op |-> "dateSelection", msg |-> msg]
  /\ UNCHANGED <<editor_config, configChanged,
                 _config, _hass, _unsubscribe, _initialized, subscription>>

\* disconnectedCallback()
DisconnectedCallback ==
  /\ IF _unsubscribe # Null
       THEN /\ _unsubscribe' = Null
            /\ subscription' = IF subscription = "active" THEN "cancelled" ELSE subscription
     ELSE UNCHANGED <<_unsubscribe, subscription>>
  /\ last' = [op |-> "disconnected"]
  /\ UNCHANGED <<editor_config, configChanged,
                 _config, _hass, _energyData, _dateRange, _initialized, shadowRoot, inflight>>

----------------------------------------------------------------------------
(* Visual editor                                                            *)

\* the fields of the card, which the editor does not touch
cardFields == <<_config, _hass, _energyData, _unsubscribe, _dateRange, _initialized,
                shadowRoot, inflight, subscription>>

\* obj[k], undefined for a property the object does not have
Get(obj, k) == IF k \in DOMAIN obj THEN obj[k] ELSE Undefined

\* obj[k] = v
With(obj, k, v) == [x \in DOMAIN obj \cup {k} |-> IF x = k THEN v ELSE obj[x]]

\* delete obj[k] for the keys given
Without(obj, keys) == [x \in DOMAIN obj \ keys |-> obj[x]]

\* the object the editor's setConfig assigns to this._config
EditorConfig(config) ==
  [type |-> Get(config, "type"),
   title |-> JsOr(Get(config, "title"), Str("Energy Sources")),
   show_header |-> Bool(Get(config, "show_header") # Bool(FALSE)),
   show_total |-> Bool(Get(config, "show_total") # Bool(FALSE)),
   currency |-> JsOr(Get(config, "currency"), Str("$")),
   decimal_places |-> Nullish(Get(config, "decimal_places"), Num(2)),
   period |-> JsOr(Get(config, "period"), Str("today")),
   sources |-> JsOr(Get(config, "sources"), Arr(<< >>))]

\* a source without the editor's tracking properties
CleanSource(source) == Without(source, {"_labelCustomized", "_emojiCustomized"})

\* cleanConfig of _fireConfigChanged
CleanConfig(cfg) ==
  [cfg EXCEPT !.sources = Arr([i \in 1..Len(cfg.sources.a) |-> CleanSource(cfg.sources.a[i])])]

\* the handler changed this._config to cfg and called _fireConfigChanged
Fire(cfg) ==
  /\ editor_config' = cfg
  /\ configChanged' = CleanConfig(cfg)

\* the configuration the editor was loaded with by the call before this event
Loaded == IF last.op = "editor.setConfig" THEN last.config ELSE Null

\* the editor has rendered its inputs
EditorRendered == editor_config # << >>

\* editor.setConfig(config)
EditorSetConfig(config) ==
  /\ editor_config' = EditorConfig(config)
  /\ last' = [op |-> "editor.setConfig", config |-> config]
  /\ UNCHANGED <<cardFields, configChanged>>

\* input on #title
TitleInput(value) ==
  /\ EditorRendered
  /\ Fire(With(editor_config, "title", Str(value)))
  /\ last' = [op |-> "editor.title", key |-> "title", value |-> value, loaded |-> Loaded]
  /\ UNCHANGED cardFields

\* parseInt on the text of a number input
ParseInt(text) == ParseSigned(TrimLeft(text))

\* input on #decimal_places
DecimalPlacesInput(value) ==
  /\ EditorRendered
  /\ Fire(With(editor_config, "decimal_places", JsOr(ParseInt(value), Num(2))))
  /\ last' = [op |-> "editor.decimal_places", key |-> "decimal_places", value |-> value,
              loaded |-> Loaded]
  /\ UNCHANGED cardFields

\* this._config with sources[index] replaced
WithSource(cfg, index, source) ==
  [cfg EXCEPT !.sources = Arr([cfg.sources.a EXCEPT ![index] = source])]

\* the label after a type change: the type's default unless customized
RetypedLabel(source, type) ==
  IF Truthy(Get(source, "_labelCustomized")) THEN Get(source, "label")
  ELSE JsOr(Lookup(DEFAULT_LABELS, Str(type)), Str("Energy"))

\* the emoji after a type change: the type's default unless customized
RetypedEmoji(source, type) ==
  IF Truthy(Get(source, "_emojiCustomized")) THEN Get(source, "emoji")
  ELSE JsOr(Lookup(DEFAULT_EMOJIS, Str(type)), Str("bar-chart"))

\* the source after the handler of a type change
Retyped(source, type) ==
  With(With(With(With(source, "type", Str(type)),
                 "label", RetypedLabel(source, type)),
            "emoji", RetypedEmoji(source, type)),
       "unit", JsOr(Lookup(DEFAULT_UNITS, Str(type)), Str("kWh")))

\* change on .source-type
SourceTypeChange(index, type) ==
  /\ EditorRendered
  /\ index \in 1..Len(editor_config.sources.a)
  /\ Fire(WithSource(editor_config, index, Retyped(editor_config.sources.a[index], type)))
  /\ last' = [op |-> "editor.type", key |-> "sources", index |-> index, value |-> type,
              loaded |-> Loaded]
  /\ UNCHANGED cardFields

\* input on .source-label
SourceLabelInput(index, value) ==
  /\ EditorRendered
  /\ index \in 1..Len(editor_config.sources.a)
  /\ Fire(WithSource(editor_config, index,
                     With(With(editor_config.sources.a[index], "label", Str(value)),
                          "_labelCustomized", Bool(TRUE))))
  /\ last' = [op |-> "editor.label", key |-> "sources", index |-> index, value |-> value,
              loaded |-> Loaded]
  /\ UNCHANGED cardFields

\* input on .source-emoji
SourceEmojiInput(index, value) ==
  /\ EditorRendered
  /\ index \in 1..Len(editor_config.sources.a)
  /\ Fire(WithSource(editor_config, index,
                     With(With(editor_config.sources.a[index], "emoji", Str(value)),
                          "_emojiCustomized", Bool(TRUE))))
  /\ last' = [op |-> "editor.emoji", key |-> "sources", index |-> index, value |-> value,
              loaded |-> Loaded]
  /\ UNCHANGED cardFields

----------------------------------------------------------------------------
(* Inputs                                                                   *)

\* an object literal with none of the source options
NoSource ==
  [type |-> Undefined, entity |-> Undefined, label |-> Undefined, emoji |-> Undefined,
   unit |-> Undefined, rate_entity |-> Undefined, rate_static |-> Undefined,
   cost_formula |-> Undefined, invert_cost |-> Undefined, show_cost |-> Undefined,
   hide_if_zero |-> Undefined, calculate_from |-> Undefined]

\* a configuration with nothing but the source list
ConfigOf(sources) ==
  [title |-> Undefined, show_header |-> Undefined, show_total |-> Undefined,
   currency |-> Undefined, decimal_places |-> Undefined, cost_decimal_places |-> Undefined,
   period |-> Undefined, period_entity |-> Undefined, sources |-> sources,
   net_metering |-> Undefined]

\* all sequences over S of length 1..n
SeqsUpTo(S, n) == UNION {[1..k -> S] : k \in 1..n}

----------------------------------------------------------------------------
(* Configuration: setConfig on source lists of every shape                  *)

MaxSources == 2

NormSources ==
  { NoSource,
    [NoSource EXCEPT !.type = Str("gas"), !.label = Str("My label")],
    [NoSource EXCEPT !.type = Str("wind"), !.entity = Str("e1"),
                     !.emoji = Str("star"), !.unit = Str("")],
    [NoSource EXCEPT !.type = Str(""), !.label = Str(""), !.unit = Str("kJ")],
    [NoSource EXCEPT !.type = Str("water"), !.unit = Str("L"), !.label = Str("")],
    [NoSource EXCEPT !.type = Str("solar"), !.emoji = Str("")] }

\* source lists setConfig rejects
BadSourceLists == {Undefined, Null, Arr(<< >>), Str("solar"), Num(0)}

ConfigInputs ==
  {ConfigOf(l) : l \in BadSourceLists}
    \cup {ConfigOf(Arr(l)) : l \in SeqsUpTo(NormSources, MaxSources)}

NextConfig == \E config \in ConfigInputs : SetConfig(config)

SpecConfig == Init /\ [][NextConfig]_vars

\* C1: setConfig throws for every configuration whose source list is absent,
\* not an array or empty, and for every configuration with a non-empty source
\* array it throws nothing, stores the configuration and renders the card.
SourceListUsable(config) ==
  /\ config.sources.t = "array"
  /\ Len(config.sources.a) > 0

C1_SetConfigRejectsExactlyBadLists ==
  last.op = "setConfig" =>
    IF SourceListUsable(last.config)
      THEN ~last.threw /\ _config # Null /\ shadowRoot.kind = "card"
           /\ Len(_config.sources) = Len(last.config.sources.a)
    ELSE last.threw

\* a rejected call after an accepted one
C1_Witness ==
  /\ last.op = "setConfig" /\ last.threw /\ last.config.sources = Arr(<< >>)
  /\ _config # Null

\* C2: normalisation yields one descriptor per element, in order, and label,
\* emoji and unit are non-empty: the explicit value when a non-empty one was
\* given, otherwise the default of the kind ('default' for an absent or
\* unknown kind).
KnownKinds ==
  {"solar", "battery_in", "battery_out", "grid_import", "grid_export", "grid_net",
   "gas", "water", "default"}

KindOf(raw) ==
  IF raw.type.t = "string" /\ raw.type.s \in KnownKinds THEN raw.type.s ELSE "default"

GivenOrDefault(given, table, kind) ==
  IF given.t = "string" /\ given.s # "" THEN given ELSE Str(table[kind])

C2_NormalizeFillsDefaults ==
  (last.op = "setConfig" /\ ~last.threw) =>
    LET raw == last.config.sources.a IN
    /\ Len(_config.sources) = Len(raw)
    /\ \A i \in 1..Len(raw) :
         LET d == _config.sources[i] IN
         /\ d.entity = (IF raw[i].entity = Undefined THEN Str("") ELSE raw[i].entity)
         /\ d.label = GivenOrDefault(raw[i].label, DEFAULT_LABELS, KindOf(raw[i]))
         /\ d.emoji = GivenOrDefault(raw[i].emoji, DEFAULT_EMOJIS, KindOf(raw[i]))
         /\ d.unit = GivenOrDefault(raw[i].unit, DEFAULT_UNITS, KindOf(raw[i]))
         /\ d.label.s # "" /\ d.emoji.s # "" /\ d.unit.s # ""

\* two sources of known kinds, the first with an explicit label and no unit,
\* the second with an empty label
C2_Witness ==
  /\ last.op = "setConfig" /\ ~last.threw
  /\ Len(_config.sources) = 2
  /\ last.config.sources.a[1].label = Str("My label")
  /\ last.config.sources.a[1].type = Str("gas")
  /\ _config.sources[1].unit = Str("m3")
  /\ last.config.sources.a[2].label = Str("")
  /\ last.config.sources.a[2].type = Str("water")
  /\ _config.sources[2].label = Str("Water")

----------------------------------------------------------------------------
(* Statistics: the answers to one request for the entities e1 and e2        *)

MaxSamples == 3

\* a host without subscription support and with no states
PlainHass == [connection |-> FALSE, callWS |-> TRUE, states |-> << >>]

StatsConfig ==
  ConfigOf(Arr(<<[NoSource EXCEPT !.entity = Str("e1")],
                 [NoSource EXCEPT !.entity = Str("e2"), !.type = Str("gas")]>>))

Sample(sum, change) == [sum |-> sum, change |-> change]

Samples ==
  { Sample(Num(10), Num(2)), Sample(Num(25), Undefined), Sample(Undefined, Num(3)),
    Sample(Null, Num(0 - 1)), Sample(Undefined, Undefined) }

StatsChoices == {Null, Arr(<< >>)} \cup {Arr(l) : l \in SeqsUpTo(Samples, MaxSamples)}

\* the statistics of e2 in the answers that carry them: 25 - 10
OtherStats == Arr(<<Sample(Num(10), Undefined), Sample(Num(25), Undefined)>>)

StatsResponses ==
  {[e1 |-> st, e2 |-> OtherStats] : st \in StatsChoices}
    \cup {[e2 |-> OtherStats], [e1 |-> OtherStats], << >>}

NextStats ==
  \/ SetConfig(StatsConfig)
  \/ (inflight = << >> /\ SetHass(PlainHass))
  \/ \E i \in 1..Len(inflight) : \E st \in StatsResponses : StatisticsArrive(i, st)
  \/ \E i \in 1..Len(inflight) : StatisticsFail(i)

SpecStats == Init /\ [][NextStats]_vars

\* the sample sequence is a non-empty array
HasSamples(st) == st.t = "array" /\ Len(st.a) > 0

BothSums(st) == IsNumber(st.a[1].sum) /\ IsNumber(st.a[Len(st.a)].sum)

\* C3: when the first and the last sample of an entity both carry a numeric
\* sum, its delta is last.sum - first.sum, whatever lies between them and
\* whatever the change fields say.
C3_DeltaIsLastMinusFirstSum ==
  last.op = "statistics" =>
    \A e \in DOMAIN last.statistics :
      LET st == last.statistics[e] IN
      (HasSamples(st) /\ BothSums(st)) =>
        /\ e \in DOMAIN _energyData
        /\ _energyData[e].value = st.a[Len(st.a)].sum.n - st.a[1].sum.n

\* first 10, last 25, an intermediate sample without sum, changes adding to 5
C3_Witness ==
  /\ last.op = "statistics" /\ "e1" \in DOMAIN last.statistics
  /\ last.statistics["e1"] =
       Arr(<<Sample(Num(10), Num(2)), Sample(Undefined, Num(3)), Sample(Num(25), Undefined)>>)
  /\ _energyData["e1"].value = 15

\* the change values of all samples, a sample without one counting 0
RECURSIVE ChangesTotal(_, _)
ChangesTotal(samples, n) ==
  IF n = 0 THEN 0
  ELSE ChangesTotal(samples, n - 1)
       + (IF IsNumber(samples[n].change) THEN samples[n].change.n ELSE 0)

\* C4: when the first and the last sample do not both carry a numeric sum and
\* at least one sample carries a numeric change, the delta is the sum of the
\* change values of all samples.
C4_DeltaIsSumOfChanges ==
  last.op = "statistics" =>
    \A e \in DOMAIN last.statistics :
      LET st == last.statistics[e] IN
      (/\ HasSamples(st)
       /\ ~BothSums(st)
       /\ \E k \in 1..Len(st.a) : IsNumber(st.a[k].change)) =>
        /\ e \in DOMAIN _energyData
        /\ _energyData[e].value = ChangesTotal(st.a, Len(st.a))

\* what the code does: the same, provided the FIRST sample carries a numeric change
C4_DeltaIsSumOfChangesWhenFirstHasChange ==
  last.op = "statistics" =>
    \A e \in DOMAIN last.statistics :
      LET st == last.statistics[e] IN
      (HasSamples(st) /\ ~BothSums(st)) =>
        /\ e \in DOMAIN _energyData
        /\ _energyData[e].value =
             IF IsNumber(st.a[1].change) THEN ChangesTotal(st.a, Len(st.a)) ELSE 0

\* no sample carries a numeric sum or a numeric change
NoFields(st) ==
  \A k \in 1..Len(st.a) : ~IsNumber(st.a[k].sum) /\ ~IsNumber(st.a[k].change)

\* C5: an entity whose samples are empty, missing, or carry neither sum nor
\* change resolves to 0, the answer is processed and rendered without an
\* error, and the other entity of the answer gets its own delta.
C5_NoSamplesGiveZero ==
  last.op \in {"statistics", "statisticsFailed"} =>
    /\ shadowRoot.kind = "card"
    /\ \A e \in {"e1", "e2"} :
         IF e \notin DOMAIN last.statistics
           THEN ValueOf(_energyData, Str(e)) = 0
         ELSE LET st == last.statistics[e] IN
           /\ (~HasSamples(st) \/ NoFields(st)) =>
                (e \in DOMAIN _energyData /\ _energyData[e].value = 0)
           /\ st = OtherStats => _energyData[e].value = 15

\* e1 without samples next to e2 with samples
C5_Witness ==
  /\ last.op = "statistics"
  /\ DOMAIN last.statistics = {"e1", "e2"}
  /\ last.statistics["e1"] = Arr(<< >>)
  /\ _energyData["e1"].value = 0
  /\ _energyData["e2"].value = 15
  /\ Len(shadowRoot.rows) = 2

----------------------------------------------------------------------------
(* Shared by the specifications of the value, cost and row claims           *)

\* samples whose delta is v
Delta(v) == Arr(<<Sample(Num(0), Undefined), Sample(Num(v), Undefined)>>)

\* the identifiers a request in flight asked for
RequestedIds(req) == {req.statistic_ids[k].s : k \in 1..Len(req.statistic_ids)}

\* the handler that ran last ended with render(), on the card's present fields
Rendered ==
  \/ last.op \in {"statistics", "statisticsFailed"}
  \/ (last.op = "setConfig" /\ ~last.threw)

\* values[id], 0 for an identifier the map does not hold
MapValue(values, id) ==
  IF id.t = "string" /\ id.s \in DOMAIN values THEN values[id.s].value ELSE 0

\* the quantity of a descriptor as the value resolver defines it
Quantity(d, values) ==
  IF d.calculate_from # Null
    THEN MapValue(values, d.calculate_from.import) - MapValue(values, d.calculate_from.export)
  ELSE MapValue(values, d.entity)

----------------------------------------------------------------------------
(* Values: one source, direct or derived, over every value map of e1, e2    *)

CalculateFrom(import, export) == [t |-> "object", import |-> import, export |-> export]

ValueSources ==
  {[NoSource EXCEPT !.entity = e, !.calculate_from = c] :
     e \in {Undefined, Str("e1"), Str("e3")},
     c \in {Undefined, Null,
            CalculateFrom(Str("e1"), Str("e2")),
            CalculateFrom(Str("e2"), Str("e1")),
            CalculateFrom(Str("e1"), Undefined),
            CalculateFrom(Undefined, Str("e3"))}}

ValueConfigs == {ConfigOf(Arr(<<src>>)) : src \in ValueSources}

ValueResponses ==
  {[e1 |-> Delta(a), e2 |-> Delta(b)] : a \in {100, 0}, b \in {30, 130}}
    \cup {[e1 |-> Delta(a)] : a \in {100, 0}}
    \cup {[e2 |-> Delta(b)] : b \in {30, 130}}
    \cup {[e3 |-> Arr(<< >>)], [e1 |-> Delta(100), e3 |-> Null], << >>}

NextValue ==
  \/ (_config = Null /\ \E config \in ValueConfigs : SetConfig(config))
  \/ (inflight = << >> /\ SetHass(PlainHass))
  \/ \E i \in 1..Len(inflight) : \E st \in ValueResponses :
       DOMAIN st \subseteq RequestedIds(inflight[i]) /\ StatisticsArrive(i, st)
  \/ \E i \in 1..Len(inflight) : StatisticsFail(i)

SpecValue == Init /\ [][NextValue]_vars

\* C6: the quantity a row shows is values[import] - values[export] when
\* calculate_from is set (entity is ignored), otherwise values[entity], an
\* entity absent from the map counting 0; the render never fails.
C6_QuantityResolution ==
  (Rendered /\ _config # Null) =>
    /\ shadowRoot.kind = "card"
    /\ Len(shadowRoot.rows) = Len(_config.sources)
    /\ \A i \in 1..Len(_config.sources) :
         /\ shadowRoot.rows[i].value
              = ToLocaleString(Quantity(_config.sources[i], _energyData), 2)
         /\ shadowRoot.rows[i].isNegative = (Quantity(_config.sources[i], _energyData) < 0)

\* import 100, export 130, and an entity that is ignored
C6_Witness ==
  /\ last.op = "statistics"
  /\ _config # Null
  /\ _config.sources[1].calculate_from = CalculateFrom(Str("e1"), Str("e2"))
  /\ _config.sources[1].entity = Str("e1")
  /\ DOMAIN _energyData = {"e1", "e2"}
  /\ _energyData["e1"].value = 100 /\ _energyData["e2"].value = 130
  /\ shadowRoot.rows[1].value = <<"-", "3", "0", ".", "0", "0">>

----------------------------------------------------------------------------
(* Costs: one source of entity e1 over every rate option, and hosts whose   *)
(* rate entity r1 is missing, numeric or not numeric                         *)

CostSources ==
  {[NoSource EXCEPT !.entity = Str("e1"), !.rate_entity = re, !.rate_static = rs,
                    !.cost_formula = f, !.invert_cost = inv, !.show_cost = sc] :
     re \in {Undefined, Str("r1"), Str("r2")},
     rs \in {Undefined, Num(2), Str("5")},
     f \in {Undefined, Str("value + rate"), Str("value * rate + 5"), Str("-value")},
     inv \in {Undefined, Bool(TRUE)},
     sc \in {Undefined, Bool(FALSE)}}

CostConfigs == {ConfigOf(Arr(<<src>>)) : src \in CostSources}

RateStates == {<<"3">>, <<"-", "2">>, <<" ", "4">>, <<"2", "x">>, <<"x">>, << >>}

HassWith(states) == [connection |-> FALSE, callWS |-> TRUE, states |-> states]

CostHosts == {PlainHass} \cup {HassWith([r1 |-> st]) : st \in RateStates}

CostResponses == {[e1 |-> Delta(10)], [e1 |-> Delta(0 - 3)], << >>}

NextCost ==
  \/ (_config = Null /\ \E config \in CostConfigs : SetConfig(config))
  \/ (inflight = << >> /\ \E hass \in CostHosts : SetHass(hass))
  \/ \E i \in 1..Len(inflight) : \E st \in CostResponses : StatisticsArrive(i, st)
  \/ \E i \in 1..Len(inflight) : StatisticsFail(i)

SpecCost == Init /\ [][NextCost]_vars

\* the state of the rate entity read as a number, Null when the entity is not
\* configured, has no state, or its state does not parse
NumericRateState(hass, d) ==
  IF d.rate_entity.t = "string" /\ d.rate_entity.s # "" /\ hass # Null
       /\ d.rate_entity.s \in DOMAIN hass.states
       /\ ParseFloat(hass.states[d.rate_entity.s]) # NaN
    THEN ParseFloat(hass.states[d.rate_entity.s])
  ELSE Null

ResolvedRate(hass, d) ==
  IF NumericRateState(hass, d) # Null THEN NumericRateState(hass, d).n
  ELSE IF d.rate_static.t = "number" /\ d.rate_static # NaN THEN d.rate_static.n
  ELSE 0

\* C7: for a source with show_cost true the rate used is the numeric state of
\* rate_entity when that is configured, present and numeric; otherwise
\* rate_static when that is a number; otherwise 0.
C7_RateResolution ==
  (Rendered /\ _config # Null) =>
    \A i \in 1..Len(_config.sources) :
      (_config.sources[i].show_cost = Bool(TRUE) /\ _config.sources[i].invert_cost = Bool(FALSE)) =>
        /\ _config.sources[i].cost_formula = Str("") =>
             shadowRoot.rows[i].cost
               = Num(Quantity(_config.sources[i], _energyData) * ResolvedRate(_hass, _config.sources[i]))
        /\ _config.sources[i].cost_formula = Str("value + rate") =>
             shadowRoot.rows[i].cost
               = Num(Quantity(_config.sources[i], _energyData) + ResolvedRate(_hass, _config.sources[i]))

\* the rate entity is present but not numeric: the static rate 2 is used
C7_Witness ==
  /\ last.op = "statistics"
  /\ _config # Null /\ _hass # Null
  /\ _config.sources[1].rate_entity = Str("r1")
  /\ _config.sources[1].rate_static = Num(2)
  /\ _config.sources[1].cost_formula = Str("")
  /\ "r1" \in DOMAIN _hass.states /\ _hass.states["r1"] = <<"x">>
  /\ shadowRoot.rows[1].value = <<"1", "0", ".", "0", "0">>
  /\ shadowRoot.rows[1].cost = Num(20)

Signed(d, x) == IF d.invert_cost = Bool(TRUE) THEN 0 - x ELSE x

\* C8: without a formula the cost of a source with show_cost true is quantity
\* times resolved rate, negated exactly when invert_cost is true; a formula
\* result that evaluated is negated the same way.
C8_CostAndInversion ==
  (Rendered /\ _config # Null) =>
    \A i \in 1..Len(_config.sources) :
      _config.sources[i].show_cost = Bool(TRUE) =>
        /\ _config.sources[i].cost_formula = Str("") =>
             shadowRoot.rows[i].cost
               = Num(Signed(_config.sources[i],
                       Quantity(_config.sources[i], _energyData)
                         * ResolvedRate(_hass, _config.sources[i])))
        /\ (/\ _config.sources[i].cost_formula # Str("")
            /\ EvalFormula(_config.sources[i].cost_formula.s,
                           Quantity(_config.sources[i], _energyData),
                           ResolvedRate(_hass, _config.sources[i])).ok) =>
             shadowRoot.rows[i].cost
               = Num(Signed(_config.sources[i],
                       EvalFormula(_config.sources[i].cost_formula.s,
                                   Quantity(_config.sources[i], _energyData),
                                   ResolvedRate(_hass, _config.sources[i])).result))

\* quantity 10 at rate 3 through "value * rate + 5", inverted: -35
C8_Witness ==
  /\ last.op = "statistics"
  /\ _config # Null /\ _hass # Null
  /\ _config.sources[1].invert_cost = Bool(TRUE)
  /\ _config.sources[1].cost_formula = Str("value * rate + 5")
  /\ _config.sources[1].rate_entity = Str("r1")
  /\ "r1" \in DOMAIN _hass.states /\ _hass.states["r1"] = <<"3">>
  /\ shadowRoot.rows[1].value = <<"1", "0", ".", "0", "0">>
  /\ shadowRoot.rows[1].cost = Num(0 - 35)

----------------------------------------------------------------------------
(* Rows: lists of sources with and without a cost, with formulas that       *)
(* evaluate and formulas that fail                                           *)

MaxRows == 2

RowSources ==
  {[NoSource EXCEPT !.entity = Str("e1"), !.rate_static = Num(2)],
   [NoSource EXCEPT !.entity = Str("e1"), !.show_cost = Bool(FALSE),
                    !.rate_entity = Str("r2"), !.rate_static = Num(2),
                    !.cost_formula = Str("value * rate + 5"), !.invert_cost = Bool(TRUE)],
   [NoSource EXCEPT !.entity = Str("e1"), !.rate_static = Num(2),
                    !.cost_formula = Str("value *")],
   [NoSource EXCEPT !.entity = Str("e2"), !.rate_static = Num(3),
                    !.cost_formula = Str("-value"), !.invert_cost = Bool(TRUE)],
   [NoSource EXCEPT !.entity = Str("e2"), !.show_cost = Bool(FALSE),
                    !.hide_if_zero = Bool(TRUE)],
   [NoSource EXCEPT !.entity = Str("e1"), !.rate_entity = Str("r2"),
                    !.cost_formula = Bool(TRUE), !.hide_if_zero = Bool(TRUE)]}

RowConfigs == {ConfigOf(Arr(srcs)) : srcs \in SeqsUpTo(RowSources, MaxRows)}

RowHost == HassWith([r1 |-> <<"3">>])

RowResponses ==
  {[e1 |-> Delta(a), e2 |-> Delta(b)] : a \in {10, 0}, b \in {0 - 3, 0}}
    \cup {[e1 |-> Delta(a)] : a \in {10, 0}}
    \cup {[e2 |-> Delta(b)] : b \in {0 - 3, 0}}

NextRows ==
  \/ (_config = Null /\ \E config \in RowConfigs : SetConfig(config))
  \/ (inflight = << >> /\ SetHass(RowHost))
  \/ \E i \in 1..Len(inflight) : \E st \in RowResponses :
       DOMAIN st \subseteq RequestedIds(inflight[i]) /\ StatisticsArrive(i, st)
  \/ \E i \in 1..Len(inflight) : StatisticsFail(i)

SpecRows == Init /\ [][NextRows]_vars

\* the source is left out of the card: hide_if_zero and a quantity of 0
Hidden(d, values) == d.hide_if_zero = Bool(TRUE) /\ Quantity(d, values) = 0

\* the position, among the rows shown, of the row of source i
RowIndex(cfg, values, i) ==
  Cardinality({j \in 1..i : ~Hidden(cfg.sources[j], values)})

\* a sequence without its k-th element
WithoutAt(seq, k) == SubSeq(seq, 1, k - 1) \o SubSeq(seq, k + 1, Len(seq))

WithoutSource(cfg, i) == [cfg EXCEPT !.sources = WithoutAt(cfg.sources, i)]

RowCost(r) == IF r.cost # Null THEN r.cost.n ELSE 0

RECURSIVE RowCosts(_)
RowCosts(rows) ==
  IF Len(rows) = 0 THEN 0 ELSE RowCost(Head(rows)) + RowCosts(Tail(rows))

SomeRowCost(rows) == \E k \in 1..Len(rows) : rows[k].cost # Null

\* the rows of the card but the row of source i
OtherRows(i) ==
  IF Hidden(_config.sources[i], _energyData) THEN shadowRoot.rows
  ELSE WithoutAt(shadowRoot.rows, RowIndex(_config, _energyData, i))

\* C9: a source with show_cost false has a row with no cost and no rate
\* warning, adds nothing to the total, and does not make the total applicable.
C9_ShowCostOffContributesNothing ==
  (Rendered /\ _config # Null) =>
    \A i \in 1..Len(_config.sources) :
      _config.sources[i].show_cost = Bool(FALSE) =>
        /\ ~Hidden(_config.sources[i], _energyData) =>
             /\ shadowRoot.rows[RowIndex(_config, _energyData, i)].cost = Null
             /\ shadowRoot.rows[RowIndex(_config, _energyData, i)].costFormatted = << >>
             /\ shadowRoot.rows[RowIndex(_config, _energyData, i)].rateWarning = Null
             /\ shadowRoot.rows[RowIndex(_config, _energyData, i)].costSpan = "none"
        /\ shadowRoot.totalCost = RowCosts(OtherRows(i))
        /\ shadowRoot.hasAnyCost = SomeRowCost(OtherRows(i))
        /\ (~SomeRowCost(OtherRows(i))) => shadowRoot.totalRow = << >>

\* a source with a cost of 20, then one with show_cost false whose rate entity
\* is missing and whose formula and inversion are set
C9_Witness ==
  /\ last.op = "statistics"
  /\ _config # Null /\ _hass # Null
  /\ Len(_config.sources) = 2
  /\ _config.sources[2].show_cost = Bool(FALSE)
  /\ _config.sources[2].rate_entity = Str("r2")
  /\ _config.sources[2].cost_formula = Str("value * rate + 5")
  /\ Len(shadowRoot.rows) = 2
  /\ shadowRoot.rows[1].cost = Num(20)
  /\ shadowRoot.rows[2].value = <<"1", "0", ".", "0", "0">>
  /\ shadowRoot.rows[2].costSpan = "none"
  /\ shadowRoot.totalCost = 20
  /\ shadowRoot.hasAnyCost

\* the cost formula of the source is evaluated and the evaluation throws
FormulaFails(d, hass, values) ==
  /\ d.show_cost = Bool(TRUE)
  /\ d.cost_formula # Str("")
  /\ ~Hidden(d, values)
  /\ \/ d.cost_formula.t # "string"
     \/ ~EvalFormula(d.cost_formula.s, Quantity(d, values), ResolvedRate(hass, d)).ok

\* C10: a cost formula that fails to evaluate yields no cost for its source
\* and does not abort the render; every other source's row and cost are what
\* they are when the failing source is absent.
C10_FormulaFailureIsContained ==
  (Rendered /\ _config # Null) =>
    \A i \in 1..Len(_config.sources) :
      FormulaFails(_config.sources[i], _hass, _energyData) =>
        /\ shadowRoot.kind = "card"
        /\ shadowRoot.rows[RowIndex(_config, _energyData, i)].cost = Null
        /\ shadowRoot.rows[RowIndex(_config, _energyData, i)].costFormatted = << >>
        /\ OtherRows(i) = Render(WithoutSource(_config, i), _hass, _energyData).rows
        /\ shadowRoot.totalCost
             = Render(WithoutSource(_config, i), _hass, _energyData).totalCost
        /\ shadowRoot.hasAnyCost
             = Render(WithoutSource(_config, i), _hass, _energyData).hasAnyCost

\* "value *" does not parse; the source after it costs 20
C10_Witness ==
  /\ last.op = "statistics"
  /\ _config # Null /\ _hass # Null
  /\ Len(_config.sources) = 2
  /\ _config.sources[1].cost_formula = Str("value *")
  /\ _config.sources[2].cost_formula = Str("")
  /\ _config.sources[2].show_cost = Bool(TRUE)
  /\ Len(shadowRoot.rows) = 2
  /\ shadowRoot.rows[1].value = <<"1", "0", ".", "0", "0">>
  /\ shadowRoot.rows[1].cost = Null
  /\ shadowRoot.rows[2].cost = Num(20)
  /\ shadowRoot.totalCost = 20

----------------------------------------------------------------------------
(* Card: labelled sources that may be hidden, with and without net metering *)

MaxCardSources == 2

Labelled(name, src) == [src EXCEPT !.label = Str(name)]

CardSources ==
  {Labelled("A", [NoSource EXCEPT !.entity = Str("e1"), !.rate_static = Num(2),
                                  !.hide_if_zero = Bool(TRUE)]),
   Labelled("B", [NoSource EXCEPT !.entity = Str("e1"), !.rate_static = Num(2),
                                  !.hide_if_zero = Bool(FALSE)]),
   Labelled("C", [NoSource EXCEPT !.entity = Str("e2"), !.show_cost = Bool(FALSE),
                                  !.hide_if_zero = Bool(TRUE)]),
   Labelled("D", [NoSource EXCEPT !.entity = Str("e2"), !.rate_static = Num(3),
                                  !.invert_cost = Bool(TRUE)]),
   Labelled("E", [NoSource EXCEPT !.calculate_from = CalculateFrom(Str("e1"), Str("e2")),
                                  !.rate_static = Num(1), !.hide_if_zero = Bool(TRUE)]),
   Labelled("F", [NoSource EXCEPT !.entity = Str("e1"), !.cost_formula = Str("value *"),
                                  !.hide_if_zero = Bool(TRUE)])}

NetMetering(import, export, rate_entity, rate_static) ==
  [t |-> "object", import_entity |-> import, export_entity |-> export,
   rate_entity |-> rate_entity, rate_static |-> rate_static,
   emoji |-> Undefined, label |-> Undefined, unit |-> Undefined]

CardNetMeterings ==
  {Undefined,
   NetMetering(Str("e1"), Str("e2"), Undefined, Num(2)),
   NetMetering(Str("e3"), Undefined, Str("r1"), Undefined)}

CardConfigs ==
  {[ConfigOf(Arr(srcs)) EXCEPT !.net_metering = nm] :
     srcs \in SeqsUpTo(CardSources, MaxCardSources), nm \in CardNetMeterings}

CardResponses ==
  {[e1 |-> Delta(a), e2 |-> Delta(b)] : a \in {10, 0}, b \in {10, 0 - 3, 0}}
    \cup {[e1 |-> Delta(a)] : a \in {10, 0}}
    \cup {[e2 |-> Delta(b)] : b \in {10, 0 - 3, 0}}

NextCard ==
  \/ (_config = Null /\ \E config \in CardConfigs : SetConfig(config))
  \/ (inflight = << >> /\ SetHass(RowHost))
  \/ \E i \in 1..Len(inflight) : \E st \in CardResponses :
       DOMAIN st \subseteq RequestedIds(inflight[i]) /\ StatisticsArrive(i, st)
  \/ \E i \in 1..Len(inflight) : StatisticsFail(i)

SpecCard == Init /\ [][NextCard]_vars

\* the sources that are not hidden
Shown(cfg, values) == {j \in 1..Len(cfg.sources) : ~Hidden(cfg.sources[j], values)}

\* C11: the ordinary rows are exactly the configured sources for which it is
\* not the case that hide_if_zero is true and the quantity is 0, in configured
\* order; a source with hide_if_zero false is never dropped.
C11_RowsAreTheSourcesNotHidden ==
  (Rendered /\ _config # Null) =>
    /\ Len(shadowRoot.rows) = Cardinality(Shown(_config, _energyData))
    /\ \A i \in Shown(_config, _energyData) :
         /\ shadowRoot.rows[RowIndex(_config, _energyData, i)].label = _config.sources[i].label
         /\ shadowRoot.rows[RowIndex(_config, _energyData, i)].value
              = ToLocaleString(Quantity(_config.sources[i], _energyData), 2)
    /\ \A i \in 1..Len(_config.sources) :
         _config.sources[i].hide_if_zero = Bool(FALSE) => i \in Shown(_config, _energyData)

\* E (e1 - e2 with hide_if_zero) is hidden at 10 - 10; B after it shows 10
C11_Witness ==
  /\ last.op = "statistics"
  /\ _config # Null
  /\ Len(_config.sources) = 2
  /\ _config.sources[1].label = Str("E")
  /\ _config.sources[2].label = Str("B")
  /\ DOMAIN _energyData = {"e1", "e2"}
  /\ _energyData["e1"].value = 10 /\ _energyData["e2"].value = 10
  /\ Len(shadowRoot.rows) = 1
  /\ shadowRoot.rows[1].label = Str("B")

\* the cost of the net-metering row, 0 without one
NetRowCost(card) == IF card.netMeteringRow # Null THEN card.netMeteringRow.cost.n ELSE 0

\* C12: the total is the sum of the costs of the produced rows whose cost is
\* applicable, plus the net-metering cost when configured; it is applicable
\* iff some produced row has an applicable cost; a hidden source adds nothing:
\* one source of quantity 0 with hide_if_zero gives no row and no total.
C12_TotalIsSumOfApplicableCosts ==
  (Rendered /\ _config # Null) =>
    /\ shadowRoot.totalCost = RowCosts(shadowRoot.rows) + NetRowCost(shadowRoot)
    /\ shadowRoot.hasAnyCost
         = (SomeRowCost(shadowRoot.rows) \/ shadowRoot.netMeteringRow # Null)
    /\ (/\ Len(_config.sources) = 1
        /\ Hidden(_config.sources[1], _energyData)
        /\ _config.net_metering = Null) =>
          /\ shadowRoot.rows = << >>
          /\ ~shadowRoot.hasAnyCost
          /\ shadowRoot.totalCost = 0
          /\ Content(shadowRoot) = <<[class |-> "no-data"]>>

\* the only source, A, has quantity 0 and hide_if_zero
C12_Witness ==
  /\ last.op = "statistics"
  /\ _config # Null
  /\ Len(_config.sources) = 1
  /\ _config.sources[1].label = Str("A")
  /\ _config.net_metering = Null
  /\ DOMAIN _energyData = {"e1"} /\ _energyData["e1"].value = 0
  /\ shadowRoot.rows = << >>
  /\ ~shadowRoot.hasAnyCost

\* C13: with net metering configured every render has the net-metering row
\* after all ordinary rows, with quantity import - export whatever its value
\* (0 and missing data included); its cost is added to the total and makes
\* the total applicable.
C13_NetMeteringRowAlwaysLast ==
  (Rendered /\ _config # Null /\ _config.net_metering # Null) =>
    /\ shadowRoot.netMeteringRow # Null
    /\ Len(Content(shadowRoot)) = Len(shadowRoot.rows) + 2
    /\ \A k \in 1..Len(shadowRoot.rows) : Content(shadowRoot)[k].class = "energy-row"
    /\ Content(shadowRoot)[Len(shadowRoot.rows) + 1].class = "net-metering-row"
    /\ Content(shadowRoot)[Len(shadowRoot.rows) + 2].class = "total"
    /\ shadowRoot.netMeteringRow.value
         = ToLocaleString(MapValue(_energyData, _config.net_metering.import_entity)
                          - MapValue(_energyData, _config.net_metering.export_entity), 2)
    /\ shadowRoot.totalCost = RowCosts(shadowRoot.rows) + shadowRoot.netMeteringRow.cost.n
    /\ shadowRoot.hasAnyCost

\* no data at all: the only source is hidden, the net-metering row shows 0.00
C13_Witness ==
  /\ last.op = "statisticsFailed"
  /\ _config # Null
  /\ _config.net_metering # Null
  /\ Len(_config.sources) = 1
  /\ _config.sources[1].label = Str("A")
  /\ shadowRoot.rows = << >>
  /\ Len(Content(shadowRoot)) = 2
  /\ Content(shadowRoot)[1].class = "net-metering-row"
  /\ shadowRoot.netMeteringRow.value = <<"0", ".", "0", "0">>
  /\ shadowRoot.hasAnyCost

----------------------------------------------------------------------------
(* Net-metering rate: a source and a net-metering setting that share the    *)
(* entity e1, the rate entity and the static rate                            *)

NetRateConfigs ==
  {[ConfigOf(Arr(<<[NoSource EXCEPT !.entity = Str("e1"), !.rate_entity = re,
                                    !.rate_static = rs]>>))
      EXCEPT !.net_metering = NetMetering(Str("e1"), Undefined, re, rs)] :
     re \in {Undefined, Str("r1"), Str("r2")},
     rs \in {Undefined, Num(2), Str("5")}}

NextNetRate ==
  \/ (_config = Null /\ \E config \in NetRateConfigs : SetConfig(config))
  \/ (inflight = << >> /\ \E hass \in CostHosts : SetHass(hass))
  \/ \E i \in 1..Len(inflight) : \E st \in CostResponses : StatisticsArrive(i, st)
  \/ \E i \in 1..Len(inflight) : StatisticsFail(i)

SpecNetRate == Init /\ [][NextNetRate]_vars

\* C14: for every host state and every pair (rate_entity, rate_static) the
\* rate of the net-metering row is the rate the ordinary policy resolves for
\* a source with the same pair: at equal quantities the two costs are equal.
C14_NetRateIsSourceRate ==
  (Rendered /\ _config # Null /\ _config.net_metering # Null) =>
    /\ shadowRoot.netMeteringRow.value = shadowRoot.rows[1].value
    /\ shadowRoot.netMeteringRow.cost = shadowRoot.rows[1].cost

----------------------------------------------------------------------------
(* Failed fetches, under the specification of the card                      *)

ZeroQuantity == <<"0", ".", "0", "0">>

\* the card after a failed fetch: an empty map, every row at 0
AllZero ==
  /\ _energyData = << >>
  /\ shadowRoot.kind = "card"
  /\ Len(shadowRoot.rows)
       = Cardinality({i \in 1..Len(_config.sources) : _config.sources[i].hide_if_zero # Bool(TRUE)})
  /\ \A k \in 1..Len(shadowRoot.rows) : shadowRoot.rows[k].value = ZeroQuantity
  /\ _config.net_metering # Null => shadowRoot.netMeteringRow.value = ZeroQuantity

\* the host update after a failed fetch asks again, for the same entities
FetchesAgain ==
  (last.op = "statisticsFailed" /\ last'.op = "hass") =>
    /\ Len(inflight') = Len(inflight) + 1
    /\ inflight'[Len(inflight')].statistic_ids = last.request.statistic_ids

\* C15: after a refresh whose fetch fails the value map is empty as a whole:
\* every source and the net-metering row are at quantity 0, entities with
\* values from an earlier refresh included; the card still renders, and a
\* later trigger fetches again.
C15_FailedFetchZeroesEverything ==
  /\ [](last.op = "statisticsFailed" => AllZero)
  /\ [][FetchesAgain]_vars

\* e1 was 10 and e2 -3 before the fetch failed
C15_Witness ==
  /\ last.op = "statisticsFailed"
  /\ DOMAIN last.before = {"e1", "e2"}
  /\ last.before["e1"].value = 10 /\ last.before["e2"].value = 0 - 3
  /\ _config.net_metering # Null
  /\ Len(shadowRoot.rows) = 2
  /\ shadowRoot.rows[1].value = ZeroQuantity
  /\ shadowRoot.netMeteringRow.value = ZeroQuantity

----------------------------------------------------------------------------
(* Requests: configurations whose identifiers repeat, are empty or missing  *)

RequestSources ==
  {NoSource,
   [NoSource EXCEPT !.entity = Str("e1")],
   [NoSource EXCEPT !.entity = Str("")],
   [NoSource EXCEPT !.entity = Str("e1"),
                    !.calculate_from = CalculateFrom(Str("e1"), Str("e2"))],
   [NoSource EXCEPT !.calculate_from = CalculateFrom(Str("e2"), Str(""))]}

RequestNetMeterings ==
  {Undefined,
   NetMetering(Str("e1"), Str("e2"), Undefined, Undefined),
   NetMetering(Str(""), Str("e3"), Undefined, Undefined)}

RequestConfigs ==
  {[ConfigOf(Arr(srcs)) EXCEPT !.net_metering = nm] :
     srcs \in [{1} -> RequestSources] \cup [{1, 2} -> RequestSources],
     nm \in RequestNetMeterings}

RequestResponses == {[e1 |-> Delta(10)], [e2 |-> Delta(4), e3 |-> Delta(1)]}

NextRequest ==
  \/ (inflight = << >> /\ \E config \in RequestConfigs : SetConfig(config))
  \/ (inflight = << >> /\ SetHass(PlainHass))
  \/ \E i \in 1..Len(inflight) : \E st \in RequestResponses :
       DOMAIN st \subseteq RequestedIds(inflight[i]) /\ StatisticsArrive(i, st)
  \/ \E i \in 1..Len(inflight) : StatisticsFail(i)

SpecRequest == Init /\ [][NextRequest]_vars

\* the non-empty identifiers among the given values
Identifiers(values) == {v.s : v \in {w \in values : w.t = "string" /\ w.s # ""}}

SourceIdentifiers(d) ==
  Identifiers({d.entity}
    \cup (IF d.calculate_from # Null
            THEN {d.calculate_from.import, d.calculate_from.export} ELSE {}))

\* every identifier the configuration refers to
ReferencedIds(cfg) ==
  UNION {SourceIdentifiers(cfg.sources[i]) : i \in 1..Len(cfg.sources)}
    \cup (IF cfg.net_metering # Null
            THEN Identifiers({cfg.net_metering.import_entity, cfg.net_metering.export_entity})
          ELSE {})

NoRepeats(seq) == \A i, j \in 1..Len(seq) : seq[i] = seq[j] => i = j

\* a host update with a configuration in force
RefreshOnHass == last'.op = "hass" /\ _config # Null

\* C16: the entity list of a statistics request is exactly the set of
\* non-empty identifiers the sources (entity, calculate_from.import,
\* calculate_from.export) and net metering (import_entity, export_entity)
\* refer to, each once; when the set is empty no request is sent and the
\* value map is reset to empty.
C16_RequestHasEachIdentifierOnce ==
  [][RefreshOnHass =>
       IF ReferencedIds(_config) = {}
         THEN inflight' = inflight /\ _energyData' = << >>
       ELSE /\ Len(inflight') = Len(inflight) + 1
            /\ NoRepeats(inflight'[Len(inflight')].statistic_ids)
            /\ RequestedIds(inflight'[Len(inflight')]) = ReferencedIds(_config)]_vars

\* e1 is named three times and e2 twice: the request lists e1, e2
C16_Witness ==
  /\ last.op = "hass"
  /\ _config # Null
  /\ Len(_config.sources) = 1
  /\ _config.sources[1].entity = Str("e1")
  /\ _config.sources[1].calculate_from = CalculateFrom(Str("e1"), Str("e2"))
  /\ _config.net_metering = NetMetering(Str("e1"), Str("e2"), Undefined, Undefined)
  /\ Len(inflight) = 1
  /\ inflight[1].statistic_ids = <<Str("e1"), Str("e2")>>

----------------------------------------------------------------------------
(* Rate warnings, under the specification of the costs                      *)

\* a rate entity is configured and it is missing or its state is not numeric
RateEntityUnusable(hass, d) ==
  /\ d.rate_entity.t = "string" /\ d.rate_entity.s # ""
  /\ NumericRateState(hass, d) = Null

StaticOrZero(d) ==
  IF d.rate_static.t = "number" /\ d.rate_static # NaN THEN d.rate_static.n ELSE 0

\* the row of source i carries a warning and its cost was computed at `rate`
WarnedAtRate(i, rate) ==
  /\ shadowRoot.rows[i].rateWarning # Null
  /\ shadowRoot.rows[i].costSpan = "warning"
  /\ _config.sources[i].cost_formula = Str("") =>
       shadowRoot.rows[i].cost
         = Num(Signed(_config.sources[i], Quantity(_config.sources[i], _energyData) * rate))
  /\ _config.sources[i].cost_formula = Str("value + rate") =>
       shadowRoot.rows[i].cost
         = Num(Signed(_config.sources[i], Quantity(_config.sources[i], _energyData) + rate))

\* C17 as stated: a source with show_cost true whose rate entity is missing or
\* not numeric has a row with a warning and a cost computed at a rate of 0.
C17_WarningAndRateZero ==
  (Rendered /\ _config # Null) =>
    \A i \in 1..Len(_config.sources) :
      (_config.sources[i].show_cost = Bool(TRUE)
         /\ RateEntityUnusable(_hass, _config.sources[i])) => WarnedAtRate(i, 0)

\* C17, amended: a source with show_cost true whose rate entity is missing or
\* not numeric has a row with a warning and a cost computed at rate_static
\* when that is a number, and at 0 otherwise.
C17_WarningAndStaticRate ==
  (Rendered /\ _config # Null) =>
    \A i \in 1..Len(_config.sources) :
      (_config.sources[i].show_cost = Bool(TRUE)
         /\ RateEntityUnusable(_hass, _config.sources[i])) =>
        WarnedAtRate(i, StaticOrZero(_config.sources[i]))

\* r2 is not a state of the host: a warning, and 10 at the static rate 2
C17_Witness ==
  /\ last.op = "statistics"
  /\ _config # Null /\ _hass # Null
  /\ _config.sources[1].show_cost = Bool(TRUE)
  /\ _config.sources[1].rate_entity = Str("r2")
  /\ _config.sources[1].rate_static = Num(2)
  /\ _config.sources[1].cost_formula = Str("")
  /\ _config.sources[1].invert_cost = Bool(FALSE)
  /\ shadowRoot.rows[1].rateWarning = Str("Entity not found")
  /\ shadowRoot.rows[1].value = <<"1", "0", ".", "0", "0">>
  /\ shadowRoot.rows[1].cost = Num(20)

----------------------------------------------------------------------------
(* Cost format: currencies, decimal counts, costs of either sign and costs  *)
(* that are not applicable                                                   *)

MaxCostDecimals == 3

FormatSources ==
  {[NoSource EXCEPT !.entity = Str("e1"), !.rate_static = Num(2),
                    !.invert_cost = inv, !.cost_formula = f] :
     inv \in {Undefined, Bool(TRUE)}, f \in {Undefined, Str("value *")}}

FormatConfigs ==
  {[ConfigOf(Arr(<<src>>)) EXCEPT !.currency = cur, !.cost_decimal_places = cdp] :
     src \in FormatSources,
     cur \in {Undefined, Str(""), Str("EUR")},
     cdp \in {Undefined, Null} \cup {Num(d) : d \in 0..MaxCostDecimals}}

NextFormat ==
  \/ (_config = Null /\ \E config \in FormatConfigs : SetConfig(config))
  \/ (inflight = << >> /\ SetHass(PlainHass))
  \/ \E i \in 1..Len(inflight) : \E st \in CostResponses : StatisticsArrive(i, st)
  \/ \E i \in 1..Len(inflight) : StatisticsFail(i)

SpecFormat == Init /\ [][NextFormat]_vars

\* symbol, then the digits of |c|; a minus sign before both when c < 0; the
\* empty string for a cost that is not applicable
FormattedAs(c, symbol, d) ==
  IF c = Null THEN << >>
  ELSE IF c.n < 0 THEN <<"-", symbol>> \o ToLocaleString(0 - c.n, d)
  ELSE <<symbol>> \o ToLocaleString(c.n, d)

SignOnlyFirst(text) == \A j \in 2..Len(text) : text[j] # "-"

\* C18: an applicable cost c is formatted as the currency symbol followed by
\* the digits of |c| with d decimals when c >= 0, and as '-', the symbol and
\* the digits of |c| when c < 0; no sign follows the digits; a cost that is
\* not applicable is formatted as the empty string.
C18_CostFormat ==
  (Rendered /\ _config # Null) =>
    /\ \A k \in 1..Len(shadowRoot.rows) :
         /\ shadowRoot.rows[k].costFormatted
              = FormattedAs(shadowRoot.rows[k].cost, _config.currency.s,
                            _config.cost_decimal_places.n)
         /\ SignOnlyFirst(shadowRoot.rows[k].costFormatted)
    /\ shadowRoot.hasAnyCost =>
         /\ shadowRoot.totalRow
              = FormattedAs(Num(shadowRoot.totalCost), _config.currency.s,
                            _config.cost_decimal_places.n)
         /\ SignOnlyFirst(shadowRoot.totalRow)

\* -20 in EUR with one decimal
C18_Witness ==
  /\ last.op = "statistics"
  /\ _config # Null
  /\ _config.currency = Str("EUR")
  /\ _config.cost_decimal_places = Num(1)
  /\ Len(shadowRoot.rows) = 1
  /\ shadowRoot.rows[1].cost = Num(0 - 20)
  /\ shadowRoot.rows[1].costFormatted = <<"-", "EUR", "2", "0", ".", "0">>

----------------------------------------------------------------------------
(* Windows: a card on a connected host that receives date selections while  *)
(* fetches are in flight                                                     *)

MaxInflight == 2

WindowConfig == ConfigOf(Arr(<<[NoSource EXCEPT !.entity = Str("e1")]>>))

ConnectedHass == [connection |-> TRUE, callWS |-> TRUE, states |-> << >>]

\* the two formats of the date-selection message
WindowMessages ==
  {[start_date |-> Str("w1-start"), end_date |-> Str("w1-end"),
    start |-> Undefined, end |-> Undefined],
   [start_date |-> Undefined, end_date |-> Undefined,
    start |-> Str("w2-start"), end |-> Str("w2-end")]}

\* what the recorder holds for the window of a request
WindowStats(start_time) ==
  CASE start_time = Str("w1-start") -> [e1 |-> Delta(10)]
    [] start_time = Str("w2-start") -> [e1 |-> Delta(20)]
    [] OTHER -> [e1 |-> Delta(5)]

NextWindow ==
  \/ (_config = Null /\ SetConfig(WindowConfig))
  \/ (Len(inflight) < MaxInflight /\ SetHass(ConnectedHass))
  \/ SubscribeResolve
  \/ SubscribeReject
  \/ (Len(inflight) < MaxInflight /\ \E msg \in WindowMessages : DateSelection(msg))
  \/ \E i \in 1..Len(inflight) : StatisticsArrive(i, WindowStats(inflight[i].start_time))
  \/ \E i \in 1..Len(inflight) : StatisticsFail(i)

SpecWindow == Init /\ [][NextWindow]_vars

\* C19: after a date-selection message for a window W, once every fetch in
\* flight has completed, the energy data displayed is the data fetched for
\* W, not data fetched for an earlier window.
C19_DisplayedDataIsOfSelectedWindow ==
  (/\ subscription = "active"
   /\ _dateRange # Null
   /\ inflight = << >>
   /\ last.op = "statistics") =>
     /\ last.request.start_time = _dateRange.start
     /\ _energyData = _processStatistics(WindowStats(_dateRange.start))

\* the step sends a request for the entities of the configuration in force
\* after it
StartsRefresh ==
  /\ Len(inflight') = Len(inflight) + 1
  /\ RequestedIds(inflight'[Len(inflight')]) = ReferencedIds(_config')

\* a host and a configuration with entities are in place after the step
CanFetch == _hass' # Null /\ _config' # Null /\ ReferencedIds(_config') # {}

\* C20: each of the three triggers, a host update, a date-selection message
\* and a configuration change (setConfig), starts a refresh cycle that fetches
\* statistics for the entities of the configuration in force after it.
C20_EveryTriggerStartsRefresh ==
  [][(CanFetch /\ (\/ last'.op \in {"hass", "dateSelection"}
                   \/ (last'.op = "setConfig" /\ ~last'.threw))) => StartsRefresh]_vars

\* C20, the part that holds: host updates and date selections start a refresh
C20_HostAndDateTriggersStartRefresh ==
  [][(CanFetch /\ last'.op \in {"hass", "dateSelection"}) => StartsRefresh]_vars

----------------------------------------------------------------------------
(* Periods: hosts with and without a connection whose period entity p1      *)
(* changes, and no date-selection message                                    *)

PeriodConfigs ==
  {[WindowConfig EXCEPT !.period = per, !.period_entity = pe] :
     per \in {Undefined, Str("week"), Str("decade")},
     pe \in {Undefined, Str("p1")}}

PeriodStates ==
  {<<"t", "h", "i", "s", "_", "m", "o", "n", "t", "h">>, <<"W", "e", "e", "k">>,
   <<"y", "e", "s", "t", "e", "r", "d", "a", "y">>, <<"o", "f", "f">>}

PeriodHosts ==
  {[connection |-> c, callWS |-> TRUE, states |-> st] :
     c \in BOOLEAN, st \in {<< >>} \cup {[p1 |-> x] : x \in PeriodStates}}

NextPeriod ==
  \/ (inflight = << >> /\ \E config \in PeriodConfigs : SetConfig(config))
  \/ (inflight = << >> /\ \E hass \in PeriodHosts : SetHass(hass))
  \/ SubscribeResolve
  \/ SubscribeReject
  \/ \E i \in 1..Len(inflight) : StatisticsArrive(i, WindowStats(inflight[i].start_time))
  \/ \E i \in 1..Len(inflight) : StatisticsFail(i)

SpecPeriod == Init /\ [][NextPeriod]_vars

\* the step sends a request
Refreshes == Len(inflight') = Len(inflight) + 1

\* the request the step sends is for the window of the period keyword that
\* is configured after the step
UsesConfiguredPeriod ==
  /\ inflight'[Len(inflight')].start_time
       = _getDateRangeForPeriod(_getConfiguredPeriod(_config', _hass')).start
  /\ inflight'[Len(inflight')].end_time
       = _getDateRangeForPeriod(_getConfiguredPeriod(_config', _hass')).end

\* C21: while no date-selection message has been received, the host offering
\* no connection or the subscription request having failed, every refresh
\* uses the window derived from the period keyword configured at the time of
\* that refresh (period entity state if it maps to a keyword, else the
\* configured period, else today).
C21_RefreshUsesConfiguredPeriod ==
  [][Refreshes => UsesConfiguredPeriod]_vars

\* C21, the part that holds: as long as the subscription request has not
\* failed, every refresh uses the window of the period configured at the time
C21_RefreshUsesConfiguredPeriodUnlessFailed ==
  [][(Refreshes /\ subscription # "failed") => UsesConfiguredPeriod]_vars

----------------------------------------------------------------------------
(* Normalisation again: raw descriptors, then the stored descriptors fed    *)
(* back to setConfig                                                         *)

RawSources ==
  {[NoSource EXCEPT !.type = ty, !.label = lb, !.show_cost = sc, !.hide_if_zero = hz,
                    !.rate_static = rs, !.invert_cost = inv, !.calculate_from = cf] :
     ty \in {Undefined, Str("gas"), Str("wind")},
     lb \in {Undefined, Str(""), Str("L")},
     sc \in {Undefined, Bool(FALSE), Num(0)},
     hz \in {Undefined, Str("yes")},
     rs \in {Undefined, Num(0)},
     inv \in {Undefined, Bool(TRUE)},
     cf \in {Undefined, CalculateFrom(Str("e1"), Str("e2"))}}

RawConfigs == {ConfigOf(Arr(<<src>>)) : src \in RawSources}

\* setConfig with the descriptors the card stores
SetConfigAgain == _config # Null /\ SetConfig(ConfigOf(Arr(_config.sources)))

NextNormalize ==
  \/ (_config = Null /\ \E config \in RawConfigs : SetConfig(config))
  \/ SetConfigAgain

SpecNormalize == Init /\ [][NextNormalize]_vars

\* the descriptors were given to setConfig as the card had stored them
FedBack == last.op = "setConfig" /\ ~last.threw /\ last.config.sources = Arr(_config.sources)

\* C22: normalisation is idempotent and pure: normalising a normalised
\* descriptor gives an equal descriptor, and normalising the same input again
\* gives equal descriptors.
C22_NormalizeIsIdempotent ==
  (last.op = "setConfig" /\ ~last.threw) =>
    \A i \in 1..Len(_config.sources) :
      /\ _normalizeSource(_config.sources[i]) = _config.sources[i]
      /\ _normalizeSource(last.config.sources.a[i]) = _config.sources[i]
      /\ _config.sources[i].show_cost = Bool(last.config.sources.a[i].show_cost # Bool(FALSE))

\* a descriptor with show_cost false and a truthy hide_if_zero, fed back
C22_Witness ==
  /\ FedBack
  /\ _config.sources[1].show_cost = Bool(FALSE)
  /\ _config.sources[1].hide_if_zero = Str("yes")
  /\ _config.sources[1].type = Str("gas")
  /\ _config.sources[1].label = Str("L")

----------------------------------------------------------------------------
(* Concurrent refreshes, under the specification of the windows             *)

\* seq without one occurrence of x
IsWithoutOne(short, seq, x) ==
  \E k \in 1..Len(seq) : seq[k] = x /\ short = WithoutAt(seq, k)

\* the step is a call of _updateData with a host and a configuration
RefreshCall == last'.op \in {"hass", "dateSelection", "subscribeFailed"} /\ CanFetch

\* the step is the completion of a request
Completion == last'.op \in {"statistics", "statisticsFailed"}

RefreshStep ==
  /\ RefreshCall =>
       /\ Len(inflight') = Len(inflight) + 1
       /\ SubSeq(inflight', 1, Len(inflight)) = inflight
  /\ Completion =>
       /\ IsWithoutOne(inflight', inflight, last'.request)
       /\ _energyData' = _processStatistics(last'.statistics)
       /\ shadowRoot' = Render(_config, _hass, _energyData')
  /\ (~RefreshCall /\ ~Completion) => inflight' = inflight

\* C23: every refresh trigger that references an entity issues exactly one
\* statistics request and no request is cancelled or coalesced; with several
\* requests in flight the stored data after each completion is the result of
\* the request that just completed, so the data displayed in the end is that
\* of the request that completed last.
C23_RefreshesAreIndependent == [][RefreshStep]_vars

\* the request for w2 was answered while the earlier request for w1 is still
\* in flight
C23_Witness ==
  /\ last.op = "statistics"
  /\ last.request.start_time = Str("w2-start")
  /\ Len(inflight) = 1
  /\ inflight[1].start_time = Str("w1-start")
  /\ _energyData = [e1 |-> [value |-> 20]]

----------------------------------------------------------------------------
(* Rejections: the card of the windows, given configurations setConfig      *)
(* rejects at any time                                                       *)

RejectConfigs == {WindowConfig} \cup {ConfigOf(l) : l \in BadSourceLists}

NextReject ==
  \/ \E config \in RejectConfigs : SetConfig(config)
  \/ (Len(inflight) < MaxInflight /\ SetHass(ConnectedHass))
  \/ SubscribeResolve
  \/ SubscribeReject
  \/ (Len(inflight) < MaxInflight /\ \E msg \in WindowMessages : DateSelection(msg))
  \/ \E i \in 1..Len(inflight) : StatisticsArrive(i, WindowStats(inflight[i].start_time))
  \/ \E i \in 1..Len(inflight) : StatisticsFail(i)

SpecReject == Init /\ [][NextReject]_vars

\* C24: a setConfig call that is rejected (missing, non-array or empty source
\* list) leaves the accepted configuration, the energy data and the date
\* range unchanged and performs no render and no fetch.
C24_RejectedSetConfigChangesNothing ==
  [][(last'.op = "setConfig" /\ last'.threw) =>
       UNCHANGED <<_config, _energyData, _dateRange, shadowRoot, inflight, _hass>>]_vars

\* rejected on a card that has a configuration, data and a selected window
C24_Witness ==
  /\ last.op = "setConfig" /\ last.threw
  /\ _config # Null
  /\ _energyData = [e1 |-> [value |-> 20]]
  /\ _dateRange # Null /\ _dateRange.start = Str("w2-start")
  /\ shadowRoot.kind = "card"

----------------------------------------------------------------------------
(* Selections: date-selection messages on a card whose configured period    *)
(* and period entity vary                                                    *)

SelectionConfigs ==
  {[WindowConfig EXCEPT !.period = Str("week")],
   [WindowConfig EXCEPT !.period_entity = Str("p1")]}

SelectionHosts ==
  {ConnectedHass,
   [ConnectedHass EXCEPT !.states = [p1 |-> <<"t", "h", "i", "s", "_", "m", "o", "n", "t", "h">>]]}

NextSelection ==
  \/ (inflight = << >> /\ \E config \in SelectionConfigs : SetConfig(config))
  \/ (Len(inflight) < MaxInflight /\ \E hass \in SelectionHosts : SetHass(hass))
  \/ SubscribeResolve
  \/ SubscribeReject
  \/ (Len(inflight) < MaxInflight /\ \E msg \in WindowMessages : DateSelection(msg))
  \/ \E i \in 1..Len(inflight) : StatisticsArrive(i, WindowStats(inflight[i].start_time))
  \/ \E i \in 1..Len(inflight) : StatisticsFail(i)

SpecSelection == Init /\ [][NextSelection]_vars

\* the window a message carries, in either of its formats
MessageWindow(msg) ==
  [start |-> IF msg.start_date # Undefined THEN msg.start_date ELSE msg.start,
   end |-> IF msg.end_date # Undefined THEN msg.end_date ELSE msg.end]

\* the request the step sends is for window w
RequestsWindow(w) ==
  /\ inflight'[Len(inflight')].start_time = w.start
  /\ inflight'[Len(inflight')].end_time = w.end

\* a date-selection message was received before the step
Selected == subscription = "active" /\ _dateRange # Null

SelectionStep ==
  /\ last'.op = "dateSelection" =>
       /\ _dateRange' = MessageWindow(last'.msg)
       /\ Refreshes => RequestsWindow(MessageWindow(last'.msg))
  /\ (Selected /\ last'.op # "dateSelection") =>
       /\ _dateRange' = _dateRange
       /\ Refreshes => RequestsWindow(_dateRange)

\* C25: once a date-selection message has been received every later refresh
\* uses the window of the message received last, whatever the configured
\* period and the state of the period entity; each message replaces the
\* stored window as a whole.
C25_RefreshUsesLastSelection == [][SelectionStep]_vars

\* a host update after w1 was selected, with period_entity at this_month
C25_Witness ==
  /\ last.op = "hass"
  /\ _config # Null /\ _config.period_entity = Str("p1")
  /\ _hass # Null /\ DOMAIN _hass.states = {"p1"}
  /\ _dateRange # Null /\ _dateRange.start = Str("w1-start")
  /\ Len(inflight) = 1
  /\ inflight[1].start_time = Str("w1-start") /\ inflight[1].end_time = Str("w1-end")

----------------------------------------------------------------------------
(* Life cycle: host updates with and without a connection, disconnects, and *)
(* the subscription request settling at any time                             *)

NextLife ==
  \/ (_config = Null /\ SetConfig(WindowConfig))
  \/ (Len(inflight) < MaxInflight /\ \E hass \in {PlainHass, ConnectedHass} : SetHass(hass))
  \/ SubscribeResolve
  \/ SubscribeReject
  \/ (Len(inflight) < MaxInflight /\ \E msg \in WindowMessages : DateSelection(msg))
  \/ DisconnectedCallback
  \/ \E i \in 1..Len(inflight) : StatisticsArrive(i, WindowStats(inflight[i].start_time))
  \/ \E i \in 1..Len(inflight) : StatisticsFail(i)

SpecLife == Init /\ [][NextLife]_vars

\* the step issues a subscription request
SubscriptionRequested == subscription' = "pending" /\ subscription # "pending"

\* the step is a host update that carries a connection
ConnectedUpdate == last'.op = "hass" /\ _hass' # Null /\ _hass'.connection

SubscriptionStep ==
  /\ SubscriptionRequested => (subscription = "none" /\ ConnectedUpdate)
  /\ (ConnectedUpdate /\ subscription = "none") => subscription' = "pending"
  /\ subscription # "none" => subscription' # "none"
  /\ _initialized' = (subscription' # "none")

\* C26: whatever the sequence of host updates, disconnects and
\* re-attachments, the card issues at most one date-selection subscription
\* request: the first update that carries a connection issues it and no later
\* update issues another, also after the request failed or the card
\* unsubscribed.
C26_AtMostOneSubscriptionRequest == [][SubscriptionStep]_vars

\* a host update with a connection on a card that has unsubscribed
C26_Witness ==
  /\ last.op = "hass"
  /\ _hass # Null /\ _hass.connection
  /\ subscription = "cancelled"
  /\ _unsubscribe = Null

\* C27: once disconnectedCallback has run and the pending subscription
\* request has settled, no subscription the card obtained remains active,
\* also when the disconnect happens while the request is pending.
C27_NoSubscriptionSurvivesDisconnect ==
  [][(last.op = "disconnected" /\ subscription = "pending" /\ subscription' # "pending")
       => subscription' # "active"]_vars

\* C27, the part that holds: a disconnect on a card that holds the cancel
\* handle cancels the subscription
C27_DisconnectCancelsResolvedSubscription ==
  [][(last'.op = "disconnected" /\ subscription = "active") =>
       (subscription' = "cancelled" /\ _unsubscribe' = Null)]_vars

----------------------------------------------------------------------------
(* SpecEditor: the visual editor is loaded by the host, the user edits the  *)
(* title, the decimal places and the type, label and emoji of the source,   *)
(* and the host feeds each emitted configuration back into the editor.      *)

\* the largest value the decimal-places input allows
MaxDecimalPlaces == 4

EditorSource ==
  [type |-> Str("solar"), entity |-> Str("e1"), label |-> Str("Roof"),
   emoji |-> Str("sun"), unit |-> Str("kWh")]

\* a configuration with the keys the editor shows
ShownConfig ==
  [type |-> Str("custom:custom-energy-sources-card"), title |-> Str("Home"),
   show_header |-> Bool(TRUE), show_total |-> Bool(FALSE), currency |-> Str("$"),
   decimal_places |-> Num(1), period |-> Str("week"), sources |-> Arr(<<EditorSource>>)]

\* a configuration that also has the keys the card reads and the editor does not show
FullConfig ==
  With(With(With(ShownConfig,
                 "net_metering", NetMetering(Str("e1"), Str("e2"), Undefined, Num(2))),
            "cost_decimal_places", Num(3)),
       "period_entity", Str("p1"))

LoadedConfigs == {ShownConfig, FullConfig}

TitleTexts == {"Flat"}

\* what the user can leave in the decimal-places field: 0 to 4, or nothing
DecimalTexts == {ToDigits(n) : n \in 0..MaxDecimalPlaces} \cup {<< >>}

TypeOptions == {"solar", "gas"}

\* a label and an emoji that only the user enters
EditedLabel == "Mine"
EditedEmoji == "star"

\* the host opens the editor with the card's configuration
HostLoads == editor_config = << >> /\ \E config \in LoadedConfigs : EditorSetConfig(config)

\* the host feeds the emitted configuration back into the editor
HostFeedback == configChanged # Null /\ EditorSetConfig(configChanged)

EditorIndexes == IF EditorRendered THEN 1..Len(editor_config.sources.a) ELSE {}

NextEditor ==
  \/ HostLoads
  \/ HostFeedback
  \/ \E value \in TitleTexts : TitleInput(value)
  \/ \E value \in DecimalTexts : DecimalPlacesInput(value)
  \/ \E index \in EditorIndexes, type \in TypeOptions : SourceTypeChange(index, type)
  \/ \E index \in EditorIndexes : SourceLabelInput(index, EditedLabel)
  \/ \E index \in EditorIndexes : SourceEmojiInput(index, EditedEmoji)

SpecEditor == Init /\ [][NextEditor]_vars

\* the events of the editor's inputs
EditorEvents ==
  {"editor.title", "editor.decimal_places", "editor.type", "editor.label", "editor.emoji"}

\* the editor was loaded and the user then changed one field
OneEdit == last.op \in EditorEvents /\ last.loaded # Null

\* no source of the configuration has one of the editor's tracking properties
NoTracking(cfg) ==
  \A i \in 1..Len(cfg.sources.a) :
    DOMAIN cfg.sources.a[i] \cap {"_labelCustomized", "_emojiCustomized"} = {}

\* C28: after the editor is loaded with a card configuration and the user
\* changes one field, the emitted configuration equals the loaded one in
\* every top-level key other than the edited one, net_metering,
\* cost_decimal_places and period_entity included, and no source of it has
\* a tracking property.
C28_OneEditKeepsOtherKeys ==
  OneEdit =>
    /\ \A k \in DOMAIN last.loaded \ {last.key} : Get(configChanged, k) = last.loaded[k]
    /\ NoTracking(configChanged)

\* C28, the part that holds: the keys the editor shows are kept, and no
\* emitted source has a tracking property
C28_OneEditKeepsShownKeys ==
  OneEdit =>
    /\ \A k \in (DOMAIN last.loaded \cap DOMAIN ShownConfig) \ {last.key} :
         Get(configChanged, k) = last.loaded[k]
    /\ NoTracking(configChanged)

\* the title is edited in an editor loaded with the full configuration
C28_Witness ==
  /\ last.op = "editor.title"
  /\ last.loaded = FullConfig
  /\ configChanged.title = Str("Flat")
  /\ configChanged.sources = FullConfig.sources

\* the label and the emoji of source i
LabelAt(cfg, i) == Get(cfg.sources.a[i], "label")
EmojiAt(cfg, i) == Get(cfg.sources.a[i], "emoji")

\* a type change of source i keeps the label and the emoji the user entered
TypeChangeKeeps(i) ==
  (EditorRendered /\ last'.op = "editor.type" /\ last'.index = i) =>
    /\ LabelAt(editor_config, i) = Str(EditedLabel) =>
         (LabelAt(editor_config', i) = Str(EditedLabel) /\ LabelAt(configChanged', i) = Str(EditedLabel))
    /\ EmojiAt(editor_config, i) = Str(EditedEmoji) =>
         (EmojiAt(editor_config', i) = Str(EditedEmoji) /\ EmojiAt(configChanged', i) = Str(EditedEmoji))

\* C29: once the user has edited the label or the emoji of a source, no
\* later type change of that source overwrites it with the type's default,
\* whatever editor events and host feedback of the emitted configuration
\* come in between.
C29_TypeChangeKeepsEdits ==
  [][\A i \in 1..Len(ShownConfig.sources.a) : TypeChangeKeeps(i)]_vars

\* a type change of source i keeps a label and an emoji marked as customized
TypeChangeKeepsMarked(i) ==
  (EditorRendered /\ last'.op = "editor.type" /\ last'.index = i) =>
    /\ Truthy(Get(editor_config.sources.a[i], "_labelCustomized")) =>
         LabelAt(editor_config', i) = LabelAt(editor_config, i)
    /\ Truthy(Get(editor_config.sources.a[i], "_emojiCustomized")) =>
         EmojiAt(editor_config', i) = EmojiAt(editor_config, i)

\* C29, the part that holds: the edits survive type changes as long as the
\* host has not fed the emitted configuration back
C29_TypeChangeKeepsMarkedEdits ==
  [][\A i \in 1..Len(ShownConfig.sources.a) : TypeChangeKeepsMarked(i)]_vars

\* the type is changed after an edit of the label that was not fed back
C29_Witness ==
  /\ last.op = "editor.type"
  /\ last.value = "gas"
  /\ Truthy(Get(editor_config.sources.a[1], "_labelCustomized"))
  /\ LabelAt(configChanged, 1) = Str(EditedLabel)

\* n was entered in the decimal-places field
Entered(n) == last.op = "editor.decimal_places" /\ last.value = ToDigits(n)

\* C30: for every integer n from 0 to 4 entered in the decimal-places
\* field, the emitted configuration has decimal_places equal to n.
C30_EnteredDecimalPlacesEmitted ==
  \A n \in 0..MaxDecimalPlaces : Entered(n) => configChanged.decimal_places = Num(n)

\* C30, the part that holds: every n from 1 to 4 is emitted as entered
C30_PositiveDecimalPlacesEmitted ==
  \A n \in 1..MaxDecimalPlaces : Entered(n) => configChanged.decimal_places = Num(n)

\* 4 was entered
C30_Witness == Entered(MaxDecimalPlaces) /\ configChanged.decimal_places = Num(4)

====
